---- MODULE Spec2Model ----
(***************************************************************************)
(* Verification model of the TRA questionnaire backend: the conditional    *)
(* question-applicability engine and question_flow                         *)
(* (backend/tools/question_tools.py), the Question Agent                   *)
(* (backend/variants/enterprise/agents/question_agent.py) and the          *)
(* dialogue router (code/variants/enterprise/orchestrator.py).             *)
(*                                                                         *)
(* Python None is the string "None"; a dict is a function whose DOMAIN is  *)
(* the set of its keys; a percentage is kept in tenths of a percent.       *)
(***************************************************************************)
EXTENDS Integers, Sequences, FiniteSets, TLC

VARIABLES db, ctx, turn, par, tree

vars == <<db, ctx, turn, par, tree>>

None == "None"

NoAnswer == "<no answer>"

\* ------------------------------------------------------------------------
\* The question catalog (decision_tree2.yaml shape, after get_decision_tree)
\* ------------------------------------------------------------------------

\* risk_areas dict of the catalog, in document order
RiskAreaIds == <<"third_party", "data_privacy">>

RiskAreaSet == {RiskAreaIds[i] : i \in 1..Len(RiskAreaIds)}

RiskAreaName(r) == IF r = "third_party" THEN "Third Party Risk"
                   ELSE IF r = "data_privacy" THEN "Data Privacy Risk"
                   ELSE r

\* qualifying_questions of the catalog, in document order
QualifyingQuestions == <<"C-01", "C-02">>

\* a risk area whose questions carry show_questions lists (the
\* decision_tree3.yaml shape) and legacy conditions; no session of the
\* model attaches it
LegacyArea == "legacy"

\* a risk area with a multiselect and a select question whose option labels
\* differ from the option values; no session of the model attaches it
OptionArea == "scope"

\* the flat "questions" list built by get_decision_tree, restricted to one
\* risk_area tag
QuestionsOf(risk_area) ==
    IF risk_area = "third_party" THEN <<"TP-01", "TP-02", "TP-03">>
    ELSE IF risk_area = "data_privacy" THEN <<"DP-01", "DP-02">>
    ELSE IF risk_area = "qualifying" THEN QualifyingQuestions
    ELSE IF risk_area = LegacyArea THEN <<"L-01", "L-02", "L-03", "L-04">>
    ELSE IF risk_area = OptionArea THEN <<"S-01", "S-02">>
    ELSE <<>>

SeqToSet(s) == {s[i] : i \in 1..Len(s)}

AllQuestionIds == SeqToSet(QuestionsOf("third_party")) \cup SeqToSet(QuestionsOf("data_privacy"))
                  \cup SeqToSet(QuestionsOf("qualifying")) \cup SeqToSet(QuestionsOf(LegacyArea))
                  \cup SeqToSet(QuestionsOf(OptionArea))

\* question record fields
QType(q) == IF q \in {"TP-02", "L-01"} THEN "text"
            ELSE IF q = "S-01" THEN "multiselect"
            ELSE "select"

QRequired(q) == q # "S-01"

\* options of a select question: <<label, value>> pairs
QOptions(q) == IF q \in {"S-01", "S-02"} THEN << <<"Yes", "Y">>, <<"No", "N">> >>
               ELSE IF QType(q) = "select" THEN << <<"Yes", "Yes">>, <<"No", "No">> >>
               ELSE <<>>

\* depends_on: <<question_id, answer>> or <<>> when absent
QDependsOn(q) == IF q = "DP-02" THEN <<"DP-01", "Yes">>
                 ELSE IF q = "L-04" THEN <<"L-01", "Yes">>
                 ELSE <<>>

\* on_yes / on_no with action skip_questions: the ids to skip
QOnYesSkip(q) == IF q = "TP-01" THEN {"TP-03"} ELSE {}

QOnNoSkip(q) == {}

\* show_questions list of a question
QShowQuestions(q) == IF q \in {"L-01", "L-02"} THEN {"L-03"} ELSE {}

\* legacy conditions: sequence of <<question_id, operator, value>>
QConditions(q) == IF q = "L-02" THEN << <<"L-01", "not_equals", "No">> >>
                  ELSE IF q = "L-04" THEN << <<"L-02", "equals", "Yes">> >>
                  ELSE <<>>

\* on_yes.risk_area of a qualifying question (action show_all_questions)
QualTrigger(q) == IF q = "C-01" THEN "Third Party"
                  ELSE IF q = "C-02" THEN "Data Privacy"
                  ELSE None

\* str.lower() on the strings that occur as answers
Lower(s) == IF s \in {"Yes", "YES"} THEN "yes"
            ELSE IF s = "No" THEN "no"
            ELSE IF s = "Y" THEN "y"
            ELSE IF s = "N" THEN "n"
            ELSE IF s = "Yes, maybe" THEN "yes, maybe"
            ELSE IF s = "no,YES" THEN "no,yes"
            ELSE IF s = "['No', 'Yes']" THEN "['no', 'yes']"
            ELSE IF s = "Add more risk areas" THEN "add more risk areas"
            ELSE s

\* str.strip() on the strings that occur as answers
Strip(s) == IF s = " " THEN "" ELSE IF s = " maybe" THEN "maybe" ELSE s

\* a list passed as the answer is written as Python prints it
EmptyList == "[]"

ListAnswers == {EmptyList, "['No', 'Yes']"}

\* the items of a list answer
ListItems(answer) == IF answer = "['No', 'Yes']" THEN <<"No", "Yes">> ELSE <<>>

\* str.split(',') on the strings that occur as answers
SplitComma(s) == IF s = "Yes, maybe" THEN <<"Yes", " maybe">>
                 ELSE IF s = "no,YES" THEN <<"no", "YES">>
                 ELSE <<s>>

\* ------------------------------------------------------------------------
\* The catalog loader
\* ------------------------------------------------------------------------

\* a question as the document writes it: a qualifying question carries a
\* response_type, a risk-area question a type
DocQuestion(q) ==
    IF q \in SeqToSet(QualifyingQuestions)
    THEN [id |-> q, response_type |-> "Yes/No", type |-> None]
    ELSE [id |-> q, response_type |-> None, type |-> QType(q)]

\* a readable catalog document: its risk_areas are a dict keyed by the
\* risk-area id (shape "dict") or a list of records with an id (shape
\* "list"), here in document order with the questions of each area
CatalogDocument(shape, qualifying, areas) ==
    [readable |-> TRUE, shape |-> shape,
     qualifying_questions |-> [i \in 1..Len(qualifying) |-> DocQuestion(qualifying[i])],
     risk_areas |-> areas]

\* a document that is missing or does not parse
UnreadableDocument ==
    [readable |-> FALSE, shape |-> None, qualifying_questions |-> <<>>, risk_areas |-> <<>>]

\* the risk-area entry of a document: the id and the first n questions
DocArea(area_id, n) ==
    [id |-> area_id,
     questions |-> [i \in 1..n |-> DocQuestion(QuestionsOf(area_id)[i])]]

\* type_mapping.get(response_type, 'text')
TypeMapping(response_type) ==
    IF response_type \in {"Yes/No", "select"} THEN "select"
    ELSE IF response_type = "multiselect" THEN "multiselect"
    ELSE IF response_type = "textarea" THEN "textarea"
    ELSE "text"

\* the copy of a document question that goes into the flat list
FlatQuestion(q, risk_area) ==
    [id |-> q.id, risk_area |-> risk_area,
     type |-> IF q.response_type # None THEN TypeMapping(q.response_type) ELSE q.type,
     yes_no_options |-> q.response_type = "Yes/No"]

\* the questions of the risk areas, flattened in document order
RECURSIVE FlatAreas(_)
FlatAreas(areas) ==
    IF areas = <<>> THEN <<>>
    ELSE [i \in 1..Len(Head(areas).questions) |->
             FlatQuestion(Head(areas).questions[i], Head(areas).id)]
         \o FlatAreas(Tail(areas))

\* get_decision_tree on a document: the structure it caches
GetDecisionTree(doc) ==
    IF ~doc.readable THEN [questions |-> <<>>, risk_areas |-> <<>>]
    ELSE [questions |-> [i \in 1..Len(doc.qualifying_questions) |->
                            FlatQuestion(doc.qualifying_questions[i], "qualifying")]
                        \o (IF doc.shape = "dict" THEN FlatAreas(doc.risk_areas) ELSE <<>>),
          risk_areas |-> doc.risk_areas]

\* the cache before the first call of get_decision_tree
NotLoaded == [questions |-> <<>>, risk_areas |-> None]

\* the cache of a process whose configured document holds the given risk
\* areas in the dict shape
ConfiguredTree(area_ids) ==
    GetDecisionTree(CatalogDocument("dict", QualifyingQuestions,
                       [i \in 1..Len(area_ids) |->
                           DocArea(area_ids[i], Len(QuestionsOf(area_ids[i])))]))

\* ------------------------------------------------------------------------
\* Applicability evaluator
\* ------------------------------------------------------------------------

\* _evaluate_conditions
RECURSIVE EvaluateConditions(_, _)
EvaluateConditions(conditions, answers) ==
    IF conditions = <<>> THEN TRUE
    ELSE LET c == Head(conditions) IN
         IF c[1] \notin DOMAIN answers THEN FALSE
         ELSE IF c[2] = "equals" /\ answers[c[1]] # c[3] THEN FALSE
         ELSE IF c[2] = "not_equals" /\ answers[c[1]] = c[3] THEN FALSE
         ELSE EvaluateConditions(Tail(conditions), answers)

\* a depends_on test that compares the answer with its case
EvaluateDependsOnExact(q, answers) ==
    IF QDependsOn(q) = <<>> THEN TRUE
    ELSE LET parent == QDependsOn(q)[1]
             required == QDependsOn(q)[2]
         IN IF parent \notin DOMAIN answers THEN FALSE
            ELSE answers[parent] = required

\* _evaluate_depends_on
EvaluateDependsOn(q, answers) ==
    IF QDependsOn(q) = <<>> THEN TRUE
    ELSE LET parent == QDependsOn(q)[1]
             required == QDependsOn(q)[2]
         IN IF parent \notin DOMAIN answers THEN FALSE
            ELSE Lower(answers[parent]) = Lower(required)

\* a skip rule that reads the on_no directive only
GetSkippedQuestionsOnNo(question_id, answer) ==
    IF question_id \notin AllQuestionIds \/ QType(question_id) = "multiselect" THEN {}
    ELSE IF answer # "" /\ Lower(answer) \in {"no", "n", "false"}
         THEN QOnNoSkip(question_id) ELSE {}

\* _get_skipped_questions; the answer of a multiselect question is a list,
\* and str() of a list is none of the words
GetSkippedQuestions(question_id, answer) ==
    IF question_id \notin AllQuestionIds \/ QType(question_id) = "multiselect" THEN {}
    ELSE (IF answer # "" /\ Lower(answer) \in {"yes", "y", "true"}
             THEN QOnYesSkip(question_id) ELSE {})
         \cup
         (IF answer # "" /\ Lower(answer) \in {"no", "n", "false"}
             THEN QOnNoSkip(question_id) ELSE {})

\* the skip list built from all answered questions
SkipList(answers) ==
    UNION {GetSkippedQuestions(a, answers[a]) : a \in DOMAIN answers}

\* _check_show_questions_dependency
CheckShowQuestionsDependency(q, all_questions, answers) ==
    LET parents == {p \in SeqToSet(all_questions) : q \in QShowQuestions(p)} IN
    IF parents = {} THEN TRUE
    ELSE \E p \in parents : p \in DOMAIN answers

\* a filter that shows a question again after it was answered
ShouldShowQuestionAgain(q, answers, skipped_ids, all_questions) ==
    /\ q \notin skipped_ids
    /\ EvaluateDependsOn(q, answers)
    /\ (QConditions(q) = <<>> \/ EvaluateConditions(QConditions(q), answers))
    /\ (all_questions = <<>> \/ CheckShowQuestionsDependency(q, all_questions, answers))

\* _should_show_question
ShouldShowQuestion(q, answers, skipped_ids, all_questions) ==
    /\ q \notin DOMAIN answers
    /\ q \notin skipped_ids
    /\ EvaluateDependsOn(q, answers)
    /\ (QConditions(q) = <<>> \/ EvaluateConditions(QConditions(q), answers))
    /\ (all_questions = <<>> \/ CheckShowQuestionsDependency(q, all_questions, answers))

\* a counting test that leaves the legacy conditions out
IsApplicableWithoutConditions(q, answers, questions) ==
    /\ q \notin SkipList(answers)
    /\ (QDependsOn(q) # <<>> =>
          /\ QDependsOn(q)[1] \in DOMAIN answers
          /\ EvaluateDependsOn(q, answers))
    /\ CheckShowQuestionsDependency(q, questions, answers)

\* a counting test that counts a dependent question while its parent is
\* unanswered
IsApplicableParentOpen(q, answers, questions) ==
    /\ q \notin SkipList(answers)
    /\ (QDependsOn(q) # <<>> /\ QDependsOn(q)[1] \in DOMAIN answers
          => EvaluateDependsOn(q, answers))
    /\ (QConditions(q) # <<>> =>
          /\ \A i \in 1..Len(QConditions(q)) : QConditions(q)[i][1] \in DOMAIN answers
          /\ EvaluateConditions(QConditions(q), answers))
    /\ CheckShowQuestionsDependency(q, questions, answers)

\* the per-question test of the counting loop of _count_applicable_questions
IsApplicable(q, answers, questions) ==
    /\ q \notin SkipList(answers)
    /\ (QDependsOn(q) # <<>> =>
          /\ QDependsOn(q)[1] \in DOMAIN answers
          /\ EvaluateDependsOn(q, answers))
    /\ (QConditions(q) # <<>> =>
          /\ \A i \in 1..Len(QConditions(q)) : QConditions(q)[i][1] \in DOMAIN answers
          /\ EvaluateConditions(QConditions(q), answers))
    /\ CheckShowQuestionsDependency(q, questions, answers)

\* a count that takes every answered question of the area as answered
CountApplicableQuestionsAnswered(risk_area, answers) ==
    LET questions == QuestionsOf(risk_area)
        applicable == {q \in SeqToSet(questions) : IsApplicable(q, answers, questions)}
    IN <<Cardinality(applicable), Cardinality(SeqToSet(questions) \cap DOMAIN answers)>>

\* _count_applicable_questions: <<applicable_count, answered_count>>
CountApplicableQuestions(risk_area, answers) ==
    LET questions == QuestionsOf(risk_area)
        applicable == {q \in SeqToSet(questions) : IsApplicable(q, answers, questions)}
    IN <<Cardinality(applicable), Cardinality(applicable \cap DOMAIN answers)>>

\* round((answered / applicable) * 100, 1), in tenths of a percent
Percentage(answered, applicable) ==
    IF applicable > 0 THEN (2000 * answered + applicable) \div (2 * applicable) ELSE 0

\* ------------------------------------------------------------------------
\* The persisted assessment record and question_flow
\* ------------------------------------------------------------------------

\* the store operations of one question_flow call, in program order; a call
\* with fail = k has its k-th store operation raise (0: none raises). A call
\* with fail = OpLoadCatalog runs in a process whose catalog document could
\* not be loaded: get_decision_tree keeps the empty structure
OpGetAssessment == 1
OpSetRiskArea == 2
OpAutoAttach == 3
OpReRead == 4
OpSaveAnswer == 5
OpSkipList == 6
OpSetQuestion == 7
OpLoadCatalog == 8

FailPoints == 0..8

\* the record written by create_assessment (TraAssessment defaults)
NewAssessment ==
    [exists |-> TRUE,
     current_state |-> "draft",
     active_risk_areas |-> <<>>,
     answers_by_risk_area |-> <<>>,
     current_question_id |-> None,
     current_risk_area |-> None,
     skipped_questions |-> {},
     completion_percentage |-> 0]

NoAssessment == [NewAssessment EXCEPT !.exists = FALSE]

\* dict.get(key, {}) on answers_by_risk_area
GetAnswers(all_answers, area) ==
    IF area \in DOMAIN all_answers THEN all_answers[area] ELSE <<>>

\* d[key] = value on a dict
Put(d, key, value) == [k \in DOMAIN d \cup {key} |-> IF k = key THEN value ELSE d[k]]

\* the select normalization of question_flow: first option whose value or
\* label equals the answer case-insensitively, else the answer unchanged
RECURSIVE MatchOption(_, _)
MatchOption(options, answer_lower) ==
    IF options = <<>> THEN None
    ELSE IF Lower(Head(options)[2]) = answer_lower \/ Lower(Head(options)[1]) = answer_lower
         THEN Head(options)[2]
         ELSE MatchOption(Tail(options), answer_lower)

\* the answer_list of the multiselect normalization
AnswerList(answer) ==
    IF answer \in ListAnswers THEN ListItems(answer)
    ELSE [i \in 1..Len(SplitComma(answer)) |-> Strip(SplitComma(answer)[i])]

\* the multiselect normalization of question_flow: for each item in turn,
\* the value of the first option it matches is appended
RECURSIVE NormalizeItems(_, _)
NormalizeItems(options, answer_list) ==
    IF answer_list = <<>> THEN <<>>
    ELSE LET m == MatchOption(options, Strip(Lower(Head(answer_list))))
             rest == NormalizeItems(options, Tail(answer_list))
         IN IF m = None THEN rest ELSE <<m>> \o rest

\* a select normalization that keeps the answer as given
NormalizeAnswerRaw(q, answer) ==
    IF QType(q) = "multiselect" THEN AnswerList(answer) ELSE answer

NormalizeAnswer(q, answer) ==
    IF QType(q) = "multiselect" THEN NormalizeItems(QOptions(q), AnswerList(answer))
    ELSE IF QType(q) = "select"
    THEN LET m == MatchOption(QOptions(q), Strip(Lower(answer)))
         IN IF m = None THEN answer ELSE m
    ELSE answer

\* risk_area_map of the auto-trigger step of question_flow
TriggerRiskAreaId(name) ==
    IF name = "Third Party" THEN "third_party"
    ELSE IF name = "Data Privacy" THEN "data_privacy"
    ELSE name

\* question_id.startswith("C-")
HasQualifyingPrefix(q) == q \in {"C-01", "C-02"}

\* a scan that stops at the first question off the skip list, answered or
\* not
FirstUnskipped(rest, answers, skipped_ids, all_questions) ==
    LET open == {i \in 1..Len(rest) : rest[i] \notin skipped_ids}
    IN IF open = {} THEN None
       ELSE rest[CHOOSE i \in open : \A j \in open : i <= j]

\* a scan that keeps the last question to show instead of stopping at the
\* first
RECURSIVE LastToShow(_, _, _, _)
LastToShow(rest, answers, skipped_ids, all_questions) ==
    IF rest = <<>> THEN None
    ELSE IF ShouldShowQuestion(rest[Len(rest)], answers, skipped_ids, all_questions)
         THEN rest[Len(rest)]
         ELSE LastToShow(SubSeq(rest, 1, Len(rest) - 1), answers, skipped_ids, all_questions)

\* first element of a sequence satisfying ShouldShowQuestion, or None
RECURSIVE FirstToShow(_, _, _, _)
FirstToShow(rest, answers, skipped_ids, all_questions) ==
    IF rest = <<>> THEN None
    ELSE IF ShouldShowQuestion(Head(rest), answers, skipped_ids, all_questions)
         THEN Head(rest)
         ELSE FirstToShow(Tail(rest), answers, skipped_ids, all_questions)

\* the questions of a risk area in the structure get_decision_tree returns
LoadedQuestions(risk_area, fail) ==
    IF fail = OpLoadCatalog THEN <<>> ELSE QuestionsOf(risk_area)

\* the skip list question_flow builds with that structure
LoadedSkipList(answers, fail) ==
    IF fail = OpLoadCatalog THEN {} ELSE SkipList(answers)

QfError(d, e) ==
    [db |-> d, success |-> FALSE, completed |-> FALSE, next_question |-> None,
     error |-> e, saved |-> FALSE, risk_area |-> None]

\* the overall progress computed in question_flow after an answer is put in
\* the local answers dict: the dict of the target area is the one held by
\* all_answers only when all_answers already had that key
RECURSIVE SumCounts(_, _, _)
SumCounts(areas, answers_of, k) ==
    IF areas = <<>> THEN 0
    ELSE CountApplicableQuestions(Head(areas), answers_of[Head(areas)])[k]
         + SumCounts(Tail(areas), answers_of, k)

OverallProgress(active, all_answers, risk_area, answers) ==
    LET seen == [a \in SeqToSet(active) |->
                    IF a = risk_area /\ risk_area \in DOMAIN all_answers
                    THEN answers ELSE GetAnswers(all_answers, a)]
    IN Percentage(SumCounts(active, seen, 2), SumCounts(active, seen, 1))

\* a STEP 3 that adds to the stored skip list instead of rebuilding it
QfNextPatchesSkipList(d, risk_area, answers, fail, saved) ==
    LET questions == LoadedQuestions(risk_area, fail)
        skipped == d.skipped_questions \cup LoadedSkipList(answers, fail)
        d6 == [d EXCEPT !.skipped_questions = skipped]
        q == FirstToShow(questions, answers, skipped, questions)
    IN IF fail = OpSkipList THEN [QfError(d, "store") EXCEPT !.saved = saved]
       ELSE IF q = None
            THEN [db |-> d6, success |-> TRUE, completed |-> TRUE, next_question |-> None,
                  error |-> None, saved |-> saved, risk_area |-> risk_area]
       ELSE IF fail = OpSetQuestion THEN [QfError(d6, "store") EXCEPT !.saved = saved]
       ELSE [db |-> [d6 EXCEPT !.current_question_id = q, !.current_risk_area = risk_area],
             success |-> TRUE, completed |-> FALSE, next_question |-> q,
             error |-> None, saved |-> saved, risk_area |-> risk_area]

\* STEP 3 of question_flow: skip list, next question
QfNext(d, risk_area, answers, fail, saved) ==
    LET questions == LoadedQuestions(risk_area, fail)
        skipped == LoadedSkipList(answers, fail)
        d6 == [d EXCEPT !.skipped_questions = skipped]
        q == FirstToShow(questions, answers, skipped, questions)
    IN IF fail = OpSkipList THEN [QfError(d, "store") EXCEPT !.saved = saved]
       ELSE IF q = None
            THEN [db |-> d6, success |-> TRUE, completed |-> TRUE, next_question |-> None,
                  error |-> None, saved |-> saved, risk_area |-> risk_area]
       ELSE IF fail = OpSetQuestion THEN [QfError(d6, "store") EXCEPT !.saved = saved]
       ELSE [db |-> [d6 EXCEPT !.current_question_id = q, !.current_risk_area = risk_area],
             success |-> TRUE, completed |-> FALSE, next_question |-> q,
             error |-> None, saved |-> saved, risk_area |-> risk_area]

\* STEP 1-2.5 of question_flow: validate, save, auto-attach, progress
QfSave(d0, d2, risk_area, answer, fail) ==
    LET all_answers == d0.answers_by_risk_area
        answers0 == GetAnswers(all_answers, risk_area)
        question_id == d0.current_question_id
    IN IF question_id = None THEN QfError(d2, "No active question to answer")
       ELSE IF question_id \notin SeqToSet(LoadedQuestions(risk_area, fail))
            THEN QfError(d2, "Question not found")
       ELSE IF QRequired(question_id) /\ (answer = "" \/ answer = EmptyList)
            THEN QfError(d2, "This question is required")
       ELSE
       LET normalized == NormalizeAnswer(question_id, answer)
           answers == Put(answers0, question_id, normalized)
           trigger == IF HasQualifyingPrefix(question_id)
                         /\ Lower(normalized) \in {"yes", "y", "true"}
                         /\ QualTrigger(question_id) # None
                      THEN TriggerRiskAreaId(QualTrigger(question_id)) ELSE None
           attach == trigger # None /\ trigger \notin SeqToSet(d0.active_risk_areas)
           d3 == IF attach
                 THEN [d2 EXCEPT !.active_risk_areas = Append(d0.active_risk_areas, trigger)]
                 ELSE d2
       IN IF attach /\ fail = OpAutoAttach THEN QfError(d2, "store")
          ELSE IF fail = OpReRead THEN QfError(d3, "store")
          ELSE
          LET completion == OverallProgress(d3.active_risk_areas, all_answers, risk_area, answers)
              d5 == [d3 EXCEPT !.answers_by_risk_area = Put(all_answers, risk_area, answers),
                               !.completion_percentage = completion,
                               !.current_question_id = None,
                               !.current_risk_area = risk_area]
          IN IF fail = OpSaveAnswer THEN QfError(d3, "store")
             ELSE QfNext(d5, risk_area, answers, fail, TRUE)

\* a resolution that falls back to the stored current_risk_area when the
\* hint is not an active risk area
ResolveRiskAreaStored(d0, hint) ==
    LET active == d0.active_risk_areas
        first == IF active # <<>> THEN active[1] ELSE None
        r0 == IF hint = None \/ hint = "" \/ hint \notin SeqToSet(active)
              THEN d0.current_risk_area ELSE hint
        r1 == IF r0 # None /\ r0 \notin SeqToSet(active) THEN first ELSE r0
    IN IF r1 = None THEN first ELSE r1

\* the risk area question_flow works on
ResolveRiskArea(d0, hint) ==
    LET active == d0.active_risk_areas
        first == IF active # <<>> THEN active[1] ELSE None
        r0 == IF hint = None \/ hint = "" THEN d0.current_risk_area ELSE hint
        r1 == IF r0 # None /\ r0 \notin SeqToSet(active) THEN first ELSE r0
    IN IF r1 = None THEN first ELSE r1

\* question_flow(assessment_id, risk_area, answer) on the stored record d0
QuestionFlowResult(d0, hint, answer, fail) ==
    IF fail = OpGetAssessment THEN QfError(d0, "store")
    ELSE IF ~d0.exists THEN QfError(d0, "Assessment not found")
    ELSE
    LET risk_area == ResolveRiskArea(d0, hint)
    IN IF risk_area = None THEN QfError(d0, "No risk area specified")
       ELSE IF fail = OpSetRiskArea THEN QfError(d0, "store")
       ELSE
       LET d2 == [d0 EXCEPT !.current_risk_area = risk_area]
       IN IF answer # NoAnswer
          THEN QfSave(d0, d2, risk_area, answer, fail)
          ELSE QfNext(d2, risk_area, GetAnswers(d0.answers_by_risk_area, risk_area), fail, FALSE)

\* ------------------------------------------------------------------------
\* Risk-area tools and state change
\* ------------------------------------------------------------------------

\* an add_risk_area that appends without looking at the list
AddRiskAreaResultAppends(d, risk_area_id, fails) ==
    IF fails \/ ~d.exists THEN [db |-> d, success |-> FALSE]
    ELSE [db |-> [d EXCEPT !.active_risk_areas = Append(@, risk_area_id)], success |-> TRUE]

\* risk_area_tools.add_risk_area on the stored record
AddRiskAreaResult(d, risk_area_id, fails) ==
    IF fails \/ ~d.exists THEN [db |-> d, success |-> FALSE]
    ELSE IF risk_area_id \notin SeqToSet(d.active_risk_areas)
         THEN [db |-> [d EXCEPT !.active_risk_areas = Append(@, risk_area_id)], success |-> TRUE]
         ELSE [db |-> d, success |-> TRUE]

\* ------------------------------------------------------------------------
\* State, and the tool-level specification: direct calls of the tools
\* ------------------------------------------------------------------------

\* what the last operation was and what it returned (history, not program state)
NoCall ==
    [called |-> FALSE, answered |-> FALSE, success |-> FALSE, completed |-> FALSE,
     saved |-> FALSE, error |-> None]

QfCall(answer, r) ==
    [called |-> TRUE, answered |-> answer # NoAnswer, success |-> r.success,
     completed |-> r.completed, saved |-> r.saved, error |-> r.error]

\* what a fault-free turn looks like, and the store faults a turn can meet:
\* the router's own read, the handler's first read, the k-th store
\* operation of question_flow, or the k-th add_risk_area call of the loop
\* that ends the qualifying sub-flow
NoFault == [router_read |-> FALSE, agent_read |-> FALSE, flow |-> 0, attach |-> 0]

TurnFaults ==
    {NoFault, [NoFault EXCEPT !.router_read = TRUE], [NoFault EXCEPT !.agent_read = TRUE],
     [NoFault EXCEPT !.flow = OpSkipList], [NoFault EXCEPT !.attach = 1]}

NoTurn ==
    [op |-> "init", n |-> 0, message |-> None, fault |-> NoFault, rule |-> None,
     handler |-> None, llm_called |-> FALSE, qf |-> NoCall]

\* last_message is kept as the menu its text carries for the option parser
NoMenu == "no options"

\* an empty session context (the dict created at session start); a key that
\* is absent reads as None or False through context.get
EmptyContext ==
    [assessment_id |-> FALSE,
     risk_area |-> None,
     awaiting_risk_area_selection |-> FALSE,
     remaining_risk_area_ids |-> <<>>,
     qualifying_questions_mode |-> FALSE,
     current_qualifying_question |-> None,
     qualifying_answers |-> <<>>,
     triggered_risk_areas |-> <<>>,
     available_risk_areas |-> FALSE,
     waiting_for_project_name |-> FALSE,
     missing_fields |-> FALSE,
     last_routed_agent |-> None,
     last_message |-> NoMenu,
     clarification_needed |-> FALSE]

\* the tool calls of two sessions in flight on one assessment: each call's
\* position, the record it read and its local variables; base is the stored
\* record before either call began
Sessions == {1, 2}

NoParCall == [kind |-> None, arg |-> None, answer |-> NoAnswer]

Idle ==
    [pc |-> "idle", call |-> NoParCall, snap |-> NoAssessment, risk_area |-> None,
     answers |-> <<>>]

NoPar == [base |-> NoAssessment, calls |-> [s \in Sessions |-> Idle]]

\* answers and risk-area hints passed by direct callers of question_flow
FlowAnswers == {"Yes", "No", "maybe", ""}

FlowHints == RiskAreaSet \cup {None}

InitFlow ==
    /\ db = NewAssessment
    /\ ctx = EmptyContext
    /\ tree = ConfiguredTree(RiskAreaIds)
    /\ turn = NoTurn
    /\ par = NoPar

\* a failure at a point the call does not come to is no failure: a store
\* operation that raised shows in the error, an empty catalog in a result
\* that is not the one of the loaded catalog; the history keeps the failure
CallQuestionFlow(hint, answer, fail) ==
    \E r \in {QuestionFlowResult(db, hint, answer, fail)} :
    /\ fail \in 1..OpSetQuestion => r.error = "store"
    /\ fail = OpLoadCatalog => r # QuestionFlowResult(db, hint, answer, 0)
    /\ db' = r.db
    /\ turn' = [NoTurn EXCEPT !.op = "question_flow", !.qf = QfCall(answer, r),
                              !.fault = [NoFault EXCEPT !.flow = fail]]
    /\ UNCHANGED <<ctx, par, tree>>

CallAddRiskArea(risk_area_id) ==
    /\ risk_area_id \notin SeqToSet(db.active_risk_areas)
    /\ db' = AddRiskAreaResult(db, risk_area_id, FALSE).db
    /\ turn' = [NoTurn EXCEPT !.op = "add_risk_area"]
    /\ UNCHANGED <<ctx, par, tree>>

NextFlow ==
    \/ \E hint \in FlowHints, answer \in FlowAnswers \cup {NoAnswer}, fail \in FailPoints :
          CallQuestionFlow(hint, answer, fail)
    \/ \E r \in RiskAreaSet : CallAddRiskArea(r)

SpecFlow == InitFlow /\ [][NextFlow]_vars

\* ------------------------------------------------------------------------
\* Messages: the texts a session user sends, the option texts the router
\* forwards, and what the regular expressions of the code yield on them
\* ------------------------------------------------------------------------

CreateMessage == "create assessment project name is apollo"

StatusLikeMessage == "what is my current status on this"

UserMessages ==
    {"reset", "submit assessment", "review my answers", "1", "2", "3", "yes", "no",
     "data privacy risk", "start questions", "list documents", StatusLikeMessage, CreateMessage}

\* option texts of the menus the handlers print
OptSelectStandard == "Select from standard risk areas"

OptStdFirst == "Third Party Risk - Questions related to Third Party Risk"

OptStdLast == "Data Privacy Risk - Questions related to Data Privacy Risk ... (e.g., '1') ..."

OptStartAnswering == "Start answering questions for these risk areas"

OptAddMore == "Add more risk areas"

OptViewCurrentStatus == "View current assessment status"

OptAddMoreManually == "Add more risk areas manually"

OptViewStatus == "View assessment status"

\* any(keyword in msg_lower for keyword in reset_keywords)
IsResetMessage(m) == m = "reset"

\* the list/enumeration request pattern of invoke_async
IsListRequest(m) == m = "list documents"

\* finalize_pattern
IsFinalize(m) == m = "submit assessment"

\* review_pattern
IsReview(m) == m = "review my answers"

\* message_lower.isdigit() and int(message_lower)
IsDigit(m) == m \in {"1", "2", "3"}

DigitValue(m) == IF m = "1" THEN 1 ELSE IF m = "2" THEN 2 ELSE IF m = "3" THEN 3 ELSE 0

\* ra_name in message_lower or message_lower in ra_name, for the name of area r
NamesRiskArea(m, r) ==
    \/ r = "data_privacy" /\ m \in {"data privacy risk", OptStdLast}
    \/ r = "third_party" /\ m = OptStdFirst

\* is_risk_area_selection of _determine_agent (names, then ids, of all areas)
IsRiskAreaSelection(m) == \E r \in RiskAreaSet : NamesRiskArea(m, r)

\* the context-free disjuncts of is_follow_up
IsStaticFollowUp(m) == m \in {"yes", "no"}

\* len(message.split()) <= 5
IsShort(m) == m \notin {StatusLikeMessage, CreateMessage, OptStdFirst, OptStdLast}

\* the start/begin/answer ... question pattern of _determine_agent
IsQuestionIntent(m) == m \in {"start questions", "start qualifying questions"}

\* the add/select more risk area pattern of invoke_async
IsAddMoreRiskAreas(m) == m \in {OptAddMore, OptAddMoreManually}

\* first agent type of routing_patterns with a matching pattern, or None
RegexRoute(m) ==
    IF m = CreateMessage THEN "assessment"
    ELSE IF m = "start questions" THEN "question"
    ELSE IF m \in {"submit assessment", "list documents", StatusLikeMessage,
                   OptViewCurrentStatus, OptViewStatus} THEN "status"
    ELSE None

\* the keyword fallback chain of _determine_agent, or None
KeywordRoute(m) ==
    IF m \in {CreateMessage, "start questions", "list documents", "start qualifying questions"}
    THEN "assessment"
    ELSE IF m \in {"review my answers", OptStdFirst, OptStdLast} THEN "question"
    ELSE IF m \in {StatusLikeMessage, OptViewCurrentStatus, OptViewStatus} THEN "status"
    ELSE None

\* Question Agent: risk area named in the message (both extraction patterns
\* agree on these texts), or None
ExtractRiskArea(m) ==
    IF m \in {OptSelectStandard, OptAddMore, OptStartAnswering} THEN "s"
    ELSE IF m = OptAddMoreManually THEN "manually"
    ELSE IF m = "show risk area selection" THEN "selection"
    ELSE None

\* Question Agent: name-to-id normalization of a risk_area value
NormalizeRiskArea(r) == IF r = "s" THEN "third_party" ELSE r

\* Question Agent: the command pattern that keeps a message from being an answer
IsCommand(m) ==
    m \in {"start questions", "list documents", "start qualifying questions",
           "show risk area selection", OptStdLast, OptStartAnswering}

\* is_yes_answer of _handle_qualifying_questions
IsYesAnswer(m) == m = "yes"

\* Assessment Agent: the list-standard-risk-areas pattern
IsListStandard(m) == m = OptSelectStandard

\* Assessment Agent: indexes (into available_risk_areas) of the numbers in the
\* message that are in range, in order of appearance
SelectedNumbers(m) ==
    IF m = "1" THEN <<1>> ELSE IF m = "2" THEN <<2>> ELSE IF m = OptStdLast THEN <<1>> ELSE <<>>

\* Assessment Agent: re.findall finds a number in the message
HasNumbers(m) == m \in {"1", "2", "3", OptStdLast}

\* Assessment Agent: all words of the name of area r occur in the message
HasAllNameWords(m, r) == NamesRiskArea(m, r)

\* Assessment Agent: a project name is extracted and the create pattern matches
IsCreateWithName(m) == m = CreateMessage

\* ------------------------------------------------------------------------
\* The Question Agent
\* ------------------------------------------------------------------------

\* the element of a one-element set: The({e(x) : x \in {v}}) is e of v, with v
\* evaluated once
The(S) == CHOOSE v \in S : TRUE

\* what a handler leaves behind: the context, the stored record of the
\* session's assessment, and what question_flow returned
Handled(c, d, qf) == [ctx |-> c, db |-> d, qf |-> qf]

\* index of x in the sequence s (0 when absent)
IndexOf(s, x) == IF \E i \in 1..Len(s) : s[i] = x
                 THEN CHOOSE i \in 1..Len(s) : s[i] = x /\ \A j \in 1..(i-1) : s[j] # x
                 ELSE 0

\* the loop of add_risk_area calls at the end of the qualifying sub-flow; the
\* k-th call fails (0: none), its result is skipped and the loop goes on
RECURSIVE AddRiskAreas(_, _, _)
AddRiskAreas(d, areas, k) ==
    IF areas = <<>> THEN d
    ELSE AddRiskAreas(AddRiskAreaResult(d, Head(areas), k = 1).db, Tail(areas), k - 1)

\* area id whose catalog name is the trigger name followed by " Risk"
TriggeredAreaId(name) == TriggerRiskAreaId(name)

\* a sub-flow that ends without removing qualifying_answers from the context
HandleQualifyingQuestionsKeepsAnswers(message, c, d, fault) ==
    IF ~c.assessment_id \/ fault.agent_read
    THEN Handled([c EXCEPT !.qualifying_questions_mode = FALSE], d, NoCall)
    ELSE IF message = "start qualifying questions"
    THEN Handled([c EXCEPT !.current_qualifying_question = QualifyingQuestions[1],
                           !.qualifying_answers = <<>>,
                           !.last_message = NoMenu], d, NoCall)
    ELSE IF c.current_qualifying_question = None
    THEN Handled([c EXCEPT !.qualifying_questions_mode = FALSE], d, NoCall)
    ELSE
    LET current_q_id == c.current_qualifying_question
        answers == Put(c.qualifying_answers, current_q_id, message)
        risk_area_id == IF IsYesAnswer(message) /\ QualTrigger(current_q_id) # None
                        THEN TriggeredAreaId(QualTrigger(current_q_id)) ELSE None
        triggered == IF risk_area_id # None /\ risk_area_id \notin SeqToSet(c.triggered_risk_areas)
                     THEN Append(c.triggered_risk_areas, risk_area_id)
                     ELSE c.triggered_risk_areas
        current_index == IndexOf(QualifyingQuestions, current_q_id)
        c1 == [c EXCEPT !.qualifying_answers = answers, !.triggered_risk_areas = triggered]
    IN IF current_index < Len(QualifyingQuestions)
       THEN Handled([c1 EXCEPT !.current_qualifying_question = QualifyingQuestions[current_index + 1],
                               !.last_message = NoMenu], d, NoCall)
       ELSE Handled([c1 EXCEPT !.qualifying_questions_mode = FALSE,
                               !.current_qualifying_question = None,
                               !.triggered_risk_areas = <<>>,
                               !.last_message = IF triggered # <<>> THEN "qual_done" ELSE NoMenu],
                    AddRiskAreas(d, triggered, fault.attach), NoCall)

\* QuestionAgent._handle_qualifying_questions
HandleQualifyingQuestions(message, c, d, fault) ==
    IF ~c.assessment_id \/ fault.agent_read
    THEN Handled([c EXCEPT !.qualifying_questions_mode = FALSE], d, NoCall)
    ELSE IF message = "start qualifying questions"
    THEN Handled([c EXCEPT !.current_qualifying_question = QualifyingQuestions[1],
                           !.qualifying_answers = <<>>,
                           !.last_message = NoMenu], d, NoCall)
    ELSE IF c.current_qualifying_question = None
    THEN Handled([c EXCEPT !.qualifying_questions_mode = FALSE], d, NoCall)
    ELSE
    LET current_q_id == c.current_qualifying_question
        answers == Put(c.qualifying_answers, current_q_id, message)
        risk_area_id == IF IsYesAnswer(message) /\ QualTrigger(current_q_id) # None
                        THEN TriggeredAreaId(QualTrigger(current_q_id)) ELSE None
        triggered == IF risk_area_id # None /\ risk_area_id \notin SeqToSet(c.triggered_risk_areas)
                     THEN Append(c.triggered_risk_areas, risk_area_id)
                     ELSE c.triggered_risk_areas
        current_index == IndexOf(QualifyingQuestions, current_q_id)
        c1 == [c EXCEPT !.qualifying_answers = answers, !.triggered_risk_areas = triggered]
    IN IF current_index < Len(QualifyingQuestions)
       THEN Handled([c1 EXCEPT !.current_qualifying_question = QualifyingQuestions[current_index + 1],
                               !.last_message = NoMenu], d, NoCall)
       ELSE Handled([c1 EXCEPT !.qualifying_questions_mode = FALSE,
                               !.current_qualifying_question = None,
                               !.qualifying_answers = <<>>,
                               !.triggered_risk_areas = <<>>,
                               !.last_message = IF triggered # <<>> THEN "qual_done" ELSE NoMenu],
                    AddRiskAreas(d, triggered, fault.attach), NoCall)

\* a list of remaining areas that takes every other active area, complete
\* or not
RemainingAreasAll(active, all_answers, risk_area) ==
    SelectSeq(active, LAMBDA r : r # risk_area)

\* the areas other than risk_area that still have unanswered applicable
\* questions (completed branch of QuestionAgent.invoke_async)
RemainingAreas(active, all_answers, risk_area) ==
    SelectSeq(active, LAMBDA r :
        /\ r # risk_area
        /\ CountApplicableQuestions(r, GetAnswers(all_answers, r))[2]
             < CountApplicableQuestions(r, GetAnswers(all_answers, r))[1])

\* the awaiting-selection block of QuestionAgent.invoke_async: the selected
\* id, or None
AgentSelection(message, remaining_ids) ==
    IF IsDigit(message)
    THEN IF DigitValue(message) <= Len(remaining_ids) THEN remaining_ids[DigitValue(message)] ELSE None
    ELSE LET hits == {i \in 1..Len(remaining_ids) : NamesRiskArea(message, remaining_ids[i])}
         IN IF hits = {} THEN None
            ELSE remaining_ids[CHOOSE i \in hits : \A j \in hits : i <= j]

\* QuestionAgent.invoke_async from the question_flow call on
AgentQuestionFlow(message, c, d, risk_area, fault) ==
    LET risk_area_id == IF risk_area = None THEN None ELSE NormalizeRiskArea(risk_area)
        c4 == [c EXCEPT !.risk_area = risk_area_id]
        is_answer == d.current_question_id # None /\ ~IsCommand(message)
        answer == IF is_answer THEN message ELSE NoAnswer
    IN The({
    LET seen == IF is_answer THEN r.db ELSE d
        remaining == RemainingAreas(d.active_risk_areas, seen.answers_by_risk_area, risk_area)
    IN IF ~r.success THEN Handled(c4, r.db, QfCall(answer, r))
       ELSE IF r.completed
       THEN IF remaining # <<>>
            THEN Handled([c4 EXCEPT !.last_message = NoMenu,
                                    !.remaining_risk_area_ids = remaining,
                                    !.awaiting_risk_area_selection = TRUE,
                                    !.risk_area = None], r.db, QfCall(answer, r))
            ELSE Handled([c4 EXCEPT !.last_message = NoMenu,
                                    !.awaiting_risk_area_selection = FALSE], r.db, QfCall(answer, r))
       ELSE Handled([c4 EXCEPT !.last_message = NoMenu], r.db, QfCall(answer, r))
    : r \in {QuestionFlowResult(d, risk_area_id, answer, fault.flow)}})

\* QuestionAgent.invoke_async
QuestionAgent(message, c, d, fault) ==
    IF c.qualifying_questions_mode THEN HandleQualifyingQuestions(message, c, d, fault)
    ELSE IF ~c.assessment_id THEN Handled([c EXCEPT !.last_message = NoMenu], d, NoCall)
    ELSE
    LET c1 == [c EXCEPT !.risk_area = IF c.risk_area # None THEN c.risk_area
                                      ELSE ExtractRiskArea(message)]
    IN IF fault.agent_read THEN Handled(c1, d, NoCall)
       ELSE
       LET active == d.active_risk_areas
           selected == IF c1.awaiting_risk_area_selection /\ c1.remaining_risk_area_ids # <<>>
                       THEN AgentSelection(message, c1.remaining_risk_area_ids) ELSE None
           c3 == IF selected # None
                 THEN [c1 EXCEPT !.risk_area = selected, !.awaiting_risk_area_selection = FALSE]
                 ELSE c1
           named == IF c3.risk_area # None THEN c3.risk_area ELSE ExtractRiskArea(message)
           risk_area == IF named = None /\ Len(active) = 1 THEN active[1] ELSE named
       IN IF active = <<>> THEN Handled([c3 EXCEPT !.last_message = NoMenu], d, NoCall)
          ELSE IF risk_area = None /\ Len(active) > 1 /\ ~c3.awaiting_risk_area_selection
          THEN Handled([c3 EXCEPT !.last_message = NoMenu,
                                  !.remaining_risk_area_ids = active,
                                  !.awaiting_risk_area_selection = TRUE], d, NoCall)
          ELSE AgentQuestionFlow(message, c3, d, risk_area, fault)

\* ------------------------------------------------------------------------
\* The Assessment, Status and Document Agents
\* ------------------------------------------------------------------------

\* Assessment Agent: the create|new|start pattern
IsCreateIntent(m) ==
    m \in {CreateMessage, "start questions", "start qualifying questions", OptStartAnswering}

\* Assessment Agent: the generic-reply guard that keeps a message from being
\* taken as the project name
IsGenericReply(m) == m \in {"yes", "no"} \/ IsCreateIntent(m)

\* the risk areas picked from available_risk_areas (the catalog areas in
\* order) by number or by name
SelectedAreas(m) ==
    IF HasNumbers(m)
    THEN [i \in 1..Len(SelectedNumbers(m)) |-> RiskAreaIds[SelectedNumbers(m)[i]]]
    ELSE SelectSeq(RiskAreaIds, LAMBDA r : HasAllNameWords(m, r))

\* AssessmentAgent.invoke_async. create_assessment writes a record under a new
\* id and points the context at it; no message of a session carries an id, so
\* the record of an earlier assessment is out of the session's reach from then
\* on and d is the record the context refers to
AssessmentAgent(message, c, d, fault) ==
    IF IsListStandard(message)
    THEN Handled([c EXCEPT !.last_message = "std_list", !.available_risk_areas = TRUE], d, NoCall)
    ELSE IF c.available_risk_areas
    THEN IF SelectedAreas(message) # <<>>
         THEN IF ~c.assessment_id \/ fault.agent_read THEN Handled(c, d, NoCall)
              ELSE Handled([c EXCEPT !.available_risk_areas = FALSE,
                                     !.last_message = "added_123"],
                           AddRiskAreas(d, SelectedAreas(message), 0), NoCall)
         ELSE Handled([c EXCEPT !.available_risk_areas = FALSE], d, NoCall)
    ELSE
    LET has_name == IsCreateWithName(message)
                    \/ (c.waiting_for_project_name /\ ~IsGenericReply(message))
        create_intent == IsCreateIntent(message) \/ (c.waiting_for_project_name /\ has_name)
        c1 == IF c.waiting_for_project_name /\ has_name
              THEN [c EXCEPT !.waiting_for_project_name = FALSE] ELSE c
    IN IF create_intent /\ ~has_name
       THEN Handled([c1 EXCEPT !.missing_fields = TRUE,
                               !.waiting_for_project_name = TRUE,
                               !.last_message = NoMenu], d, NoCall)
       ELSE IF create_intent
       THEN Handled([c1 EXCEPT !.assessment_id = TRUE, !.last_message = "abc_create"],
                    NewAssessment, NoCall)
       ELSE Handled([c1 EXCEPT !.last_message = NoMenu], d, NoCall)

\* StatusAgent.invoke_async: the reply of its LLM agent becomes last_message
StatusAgent(message, c, d, fault) == Handled([c EXCEPT !.last_message = NoMenu], d, NoCall)

\* DocumentAgent.invoke_async: a fixed text or the reply of its LLM agent
DocumentAgent(message, c, d, fault) == Handled([c EXCEPT !.last_message = NoMenu], d, NoCall)

\* the four handler categories
AgentTypes == {"assessment", "document", "question", "status"}

\* _get_agent_by_type: the handler for a type, the Assessment Agent by default
GetAgentByType(agent_type) == IF agent_type \in AgentTypes THEN agent_type ELSE "assessment"

\* target_agent.invoke_async(message, context)
InvokeAgent(agent, message, c, d, fault) ==
    IF agent = "question" THEN QuestionAgent(message, c, d, fault)
    ELSE IF agent = "assessment" THEN AssessmentAgent(message, c, d, fault)
    ELSE IF agent = "status" THEN StatusAgent(message, c, d, fault)
    ELSE DocumentAgent(message, c, d, fault)

\* ------------------------------------------------------------------------
\* The option parser of invoke_async
\* ------------------------------------------------------------------------

\* options parsed from last_message by letter_pattern / number_pattern, in
\* order; "letter" menus are also indexed by number
MenuOptions(last_message) ==
    IF last_message = "abc_create"
    THEN <<"Upload documents for AI-powered risk area recommendation", OptSelectStandard,
           "Answer AI questions to identify areas">>
    ELSE IF last_message = "std_list" THEN <<OptStdFirst, OptStdLast>>
    ELSE IF last_message = "added_123" THEN <<OptStartAnswering, OptAddMore, OptViewCurrentStatus>>
    ELSE IF last_message = "qual_done" THEN <<OptStartAnswering, OptAddMoreManually, OptViewStatus>>
    ELSE <<>>

\* options[selected_option], or None when the reply selects nothing
SelectedOption(last_message, user_msg) ==
    IF IsDigit(user_msg) /\ DigitValue(user_msg) <= Len(MenuOptions(last_message))
    THEN MenuOptions(last_message)[DigitValue(user_msg)]
    ELSE None

\* the keyword heuristic on the selected option text
OptionKind(opt_text) ==
    IF opt_text = "Upload documents for AI-powered risk area recommendation" THEN "upload"
    ELSE IF opt_text = "Answer AI questions to identify areas" THEN "qualifying"
    ELSE IF opt_text = OptStartAnswering THEN "start_answering"
    ELSE IF opt_text \in {OptSelectStandard, OptStdLast} THEN "assessment"
    ELSE "question"

\* ------------------------------------------------------------------------
\* The router: _determine_agent and invoke_async
\* ------------------------------------------------------------------------

\* the confidence floor of the classifier path, in tenths
ConfidenceFloor == 7

\* what the classifier call can come back with: an exception, a reply that is
\* not JSON, or JSON with an intent list and a confidence (in tenths)
LlmFailure == [kind |-> "error", intent |-> <<>>, confidence |-> 0]

LlmText(text) == [kind |-> "text", intent |-> <<text>>, confidence |-> 5]

LlmJson(intent, confidence) == [kind |-> "json", intent |-> intent, confidence |-> confidence]

LlmResponses ==
    {LlmFailure, LlmText("question"),
     LlmJson(<<"question">>, 9), LlmJson(<<"status">>, 7), LlmJson(<<"assessment">>, 9),
     LlmJson(<<"document">>, 9), LlmJson(<<"general">>, 9),
     LlmJson(<<"question">>, 6), LlmJson(<<"status">>, 6),
     LlmJson(<<"assessment", "question">>, 9), LlmJson(<<>>, 9)}

\* what _determine_agent returns: the handler (None: none), the context, the
\* clarification prompt (as a flag), with the method and intent it records
\* in intent_extraction and whether the classifier was called
Routed(agent, c, method, intent, llm_called) ==
    [agent |-> agent, ctx |-> c, clarification |-> FALSE, method |-> method,
     intent |-> intent, llm_called |-> llm_called]

RouteTo(agent_type, c, method) ==
    Routed(GetAgentByType(agent_type),
           [c EXCEPT !.clarification_needed = FALSE, !.last_routed_agent = agent_type],
           method, <<agent_type>>, FALSE)

Clarify(c, method, intent, llm_called) ==
    [Routed(None, [c EXCEPT !.clarification_needed = TRUE], method, intent, llm_called)
        EXCEPT !.clarification = TRUE]

\* Step 2-4 of _determine_agent: routing_patterns, keywords, clarification
FallbackRoute(message, c) ==
    IF RegexRoute(message) # None
    THEN [RouteTo(RegexRoute(message), c, "regex") EXCEPT !.llm_called = TRUE]
    ELSE IF KeywordRoute(message) # None
    THEN [RouteTo(KeywordRoute(message), c, "keyword") EXCEPT !.llm_called = TRUE]
    ELSE Clarify(c, "none", <<>>, TRUE)

\* Step 1 of _determine_agent: the classifier and its confidence floor
SlmRoute(message, c, llm) ==
    IF llm.kind = "error" THEN FallbackRoute(message, c)
    ELSE IF llm.intent = <<>> \/ llm.confidence < ConfidenceFloor
    THEN Clarify(c, "slm", llm.intent, TRUE)
    ELSE IF Len(llm.intent) > 1 THEN Clarify(c, "slm", llm.intent, TRUE)
    ELSE [RouteTo(llm.intent[1], c, "slm") EXCEPT !.llm_called = TRUE]

\* is_follow_up of _determine_agent
IsFollowUp(message, c) ==
    \/ IsStaticFollowUp(message)
    \/ IsShort(message) /\ c.last_routed_agent # None
    \/ c.waiting_for_project_name \/ c.missing_fields \/ c.available_risk_areas

\* the awaiting_risk_area_selection check of _determine_agent
IsAwaitedSelection(message, c) ==
    /\ c.awaiting_risk_area_selection
    /\ \/ IsDigit(message) /\ DigitValue(message) <= Len(c.remaining_risk_area_ids)
       \/ \E i \in 1..Len(c.remaining_risk_area_ids) :
             NamesRiskArea(message, c.remaining_risk_area_ids[i])

\* the finalize/submit check with the agent type of the checks around it
FinalizeAgentTypeQuestion == "question"

\* the agent type of the finalize/submit priority check
FinalizeAgentType == "status"

\* the open-question check reading a key the stored record does not have
HasOpenQuestionWrongKey(c, d, fault) ==
    /\ c.assessment_id /\ ~fault.router_read /\ d.exists
    /\ "current_question" \in DOMAIN d
    /\ d.current_question # None

\* the open-question check of _determine_agent: the assessment of the context
\* is read and has a current_question_id
HasOpenQuestion(c, d, fault) ==
    c.assessment_id /\ ~fault.router_read /\ d.exists /\ d.current_question_id # None

\* _determine_agent(message, context); d is the stored record of the
\* context's assessment
DetermineAgent(message, c, d, llm, fault) ==
    IF c.qualifying_questions_mode THEN RouteTo("question", c, "qualifying_questions_mode")
    ELSE IF IsFinalize(message) THEN RouteTo(FinalizeAgentType, c, "priority_finalize")
    ELSE IF IsReview(message) THEN RouteTo("status", c, "priority_review")
    ELSE IF IsAwaitedSelection(message, c)
    THEN RouteTo("question", [c EXCEPT !.awaiting_risk_area_selection = FALSE],
                 IF IsDigit(message) THEN "risk_area_number_selection"
                 ELSE "risk_area_name_selection")
    ELSE IF HasOpenQuestion(c, d, fault)
    THEN RouteTo("question", c, "answering_current_question")
    ELSE IF ~c.available_risk_areas /\ IsRiskAreaSelection(message)
    THEN RouteTo("question", c, "risk_area_selection")
    ELSE IF IsQuestionIntent(message) THEN RouteTo("question", c, "question_intent")
    ELSE IF IsFollowUp(message, c) /\ c.last_routed_agent # None
    THEN Routed(GetAgentByType(c.last_routed_agent), c, "follow_up", <<c.last_routed_agent>>, FALSE)
    ELSE SlmRoute(message, c, llm)

\* whether a turn on this message and context gets as far as the classifier
ReachesClassifier(message, c, d, fault) ==
    /\ ~IsResetMessage(message)
    /\ SelectedOption(c.last_message, message) = None
    /\ ~IsListRequest(message)
    /\ DetermineAgent(message, c, d, LlmFailure, fault).llm_called

\* what one call of invoke_async leaves behind: the context, the stored
\* record, the check that decided the turn (the method recorded in
\* intent_extraction, or the name of the check of invoke_async), the category
\* of the handler that was invoked (None: none), whether the classifier was
\* called, and what question_flow returned
Outcome(c, d, rule, handler, llm_called, qf) ==
    [ctx |-> c, db |-> d, rule |-> rule, handler |-> handler,
     llm_called |-> llm_called, qf |-> qf]

\* the option-selection block of invoke_async, on the selected option text
SelectOption(opt_text, c, d, fault) ==
    LET kind == OptionKind(opt_text) IN
    IF kind = "upload" THEN Outcome(c, d, "option_selection", None, FALSE, NoCall)
    ELSE IF kind = "qualifying"
    THEN The({Outcome(h.ctx, h.db, "option_selection", "question", FALSE, h.qf) :
                 h \in {QuestionAgent("start qualifying questions",
                                      [c EXCEPT !.qualifying_questions_mode = TRUE,
                                                !.current_qualifying_question = "C-01",
                                                !.qualifying_answers = <<>>], d, fault)}})
    ELSE IF kind = "start_answering"
    THEN IF ~c.assessment_id \/ fault.router_read \/ ~d.exists
         THEN Outcome(c, d, "option_selection", None, FALSE, NoCall)
         ELSE IF d.active_risk_areas = <<>>
         THEN Outcome([c EXCEPT !.last_message = NoMenu], d, "option_selection", None, FALSE, NoCall)
         ELSE LET target == IF Len(d.active_risk_areas) > 1 THEN "assessment" ELSE "question"
              IN The({The({Outcome(second.ctx, second.db, "option_selection", target,
                                   FALSE, second.qf) :
                           second \in {InvokeAgent(target, opt_text, first.ctx, first.db, fault)}}) :
                      first \in {InvokeAgent(target,
                                             IF target = "assessment"
                                             THEN "show risk area selection"
                                             ELSE "start questions",
                                             [c EXCEPT !.last_message = NoMenu], d, fault)}})
    ELSE The({Outcome(h.ctx, h.db, "option_selection", kind, FALSE, h.qf) :
                 h \in {InvokeAgent(kind, opt_text, c, d, fault)}})

\* EnterpriseOrchestratorAgent.invoke_async(message, context)
\* a reset that forgets everything but the assessment the session works on
ResetContextKeepsAssessment(c) ==
    [EmptyContext EXCEPT !.assessment_id = c.assessment_id]

\* the safe word: context.clear(), only the session id is put back (the
\* session id is the same in every context of the session and is not a field)
ResetContext(c) ==
    EmptyContext

InvokeAsync(message, c, d, llm, fault) ==
    IF IsResetMessage(message) THEN Outcome(ResetContext(c), d, "reset", None, FALSE, NoCall)
    ELSE IF SelectedOption(c.last_message, message) # None
    THEN SelectOption(SelectedOption(c.last_message, message), c, d, fault)
    ELSE IF IsListRequest(message) THEN Outcome(c, d, "list_request", None, FALSE, NoCall)
    ELSE The({
    LET add_more == IsAddMoreRiskAreas(message) /\ r.ctx.assessment_id /\ r.agent = None
        c1 == IF add_more THEN [r.ctx EXCEPT !.last_routed_agent = "assessment"] ELSE r.ctx
        patch == r.clarification /\ c1.assessment_id /\ "question" \in SeqToSet(r.intent)
        target_agent == IF patch THEN "question"
                        ELSE IF add_more THEN "assessment" ELSE r.agent
    IN IF (r.clarification /\ ~patch) \/ target_agent = None
       THEN Outcome(c1, d, r.method, None, r.llm_called, NoCall)
       ELSE The({Outcome(h.ctx, h.db, r.method, target_agent, r.llm_called, h.qf) :
                    h \in {InvokeAgent(target_agent, message, c1, d, fault)}})
    : r \in {DetermineAgent(message, c, d, llm, fault)}})

\* ------------------------------------------------------------------------
\* The session specification: one action per inbound message (one
\* iteration of the websocket loop of api/main.py, the client sending no
\* context of its own)
\* ------------------------------------------------------------------------

\* the number of messages of a session
MaxTurns == 6

Init ==
    /\ db = NoAssessment
    /\ ctx = EmptyContext
    /\ tree = ConfiguredTree(RiskAreaIds)
    /\ turn = NoTurn
    /\ par = NoPar

Turn(message, llm, fault) ==
    \E r \in {InvokeAsync(message, ctx, db, llm, fault)} :
    /\ ctx' = r.ctx
    /\ UNCHANGED <<par, tree>>
    /\ db' = r.db
    /\ turn' = [op |-> "turn", n |-> turn.n + 1, message |-> message, fault |-> fault,
                rule |-> r.rule, handler |-> r.handler,
                llm_called |-> r.llm_called, qf |-> r.qf]

\* a store fault that no store operation of the turn runs into is no fault
MeetsFault(message, c, d, llm, fault) ==
    \/ fault = NoFault
    \/ InvokeAsync(message, c, d, llm, fault) # InvokeAsync(message, c, d, llm, NoFault)

Next ==
    /\ turn.n < MaxTurns
    /\ \E message \in UserMessages, fault \in TurnFaults :
          \E llm \in (IF ReachesClassifier(message, ctx, db, fault) THEN LlmResponses
                       ELSE {LlmFailure}) :
            /\ MeetsFault(message, ctx, db, llm, fault)
            /\ Turn(message, llm, fault)

Spec == Init /\ [][Next]_vars

\* ------------------------------------------------------------------------
\* The session from the end of the qualifying sub-flow on: a session that
\* created an assessment, started the qualifying questions and answered
\* yes to one or to each has one or every catalog risk area attached; the
\* turns that follow select the areas and answer their questions
\* ------------------------------------------------------------------------

\* the context and the record a fault-free session holds after the messages
RECURSIVE AfterMessages(_, _, _)
AfterMessages(c, d, messages) ==
    IF messages = <<>> THEN [ctx |-> c, db |-> d]
    ELSE The({AfterMessages(r.ctx, r.db, Tail(messages)) :
                 r \in {InvokeAsync(Head(messages), c, d, LlmFailure, NoFault)}})

QualifyingRuns ==
    {<<CreateMessage, "3", "yes", "yes">>, <<CreateMessage, "3", "yes", "no">>,
     <<CreateMessage, "3", "no", "yes">>}

\* the number of messages after the qualifying run
MaxAreaTurns == 4

AreaMessages == {"1", "2", "yes", "no", "data privacy risk", "start questions"}

InitAreas ==
    /\ \E s \in {AfterMessages(EmptyContext, NoAssessment, run) : run \in QualifyingRuns} :
          /\ db = s.db
          /\ ctx = s.ctx
    /\ tree = ConfiguredTree(RiskAreaIds)
    /\ turn = NoTurn
    /\ par = NoPar

NextAreas ==
    /\ turn.n < MaxAreaTurns
    /\ \E message \in AreaMessages, fault \in TurnFaults :
          /\ MeetsFault(message, ctx, db, LlmFailure, fault)
          /\ Turn(message, LlmFailure, fault)

SpecAreas == InitAreas /\ [][NextAreas]_vars

\* ------------------------------------------------------------------------
\* The session around the qualifying sub-flow: a session that has created
\* an assessment starts the qualifying questions from the menu, answers
\* them, sends the start command again or creates another assessment
\* ------------------------------------------------------------------------

\* the number of messages after the assessment is created
MaxQualTurns == 6

QualMessages ==
    {CreateMessage, "3", "yes", "no", "start qualifying questions", "list documents"}

QualFaults ==
    {NoFault, [NoFault EXCEPT !.agent_read = TRUE], [NoFault EXCEPT !.attach = 1]}

InitQual ==
    /\ \E s \in {AfterMessages(EmptyContext, NoAssessment, <<CreateMessage>>)} :
          /\ db = s.db
          /\ ctx = s.ctx
    /\ tree = ConfiguredTree(RiskAreaIds)
    /\ turn = NoTurn
    /\ par = NoPar

NextQual ==
    /\ turn.n < MaxQualTurns
    /\ \E message \in QualMessages, fault \in QualFaults :
          \E llm \in (IF ReachesClassifier(message, ctx, db, fault) THEN LlmResponses
                       ELSE {LlmFailure}) :
            /\ MeetsFault(message, ctx, db, llm, fault)
            /\ Turn(message, llm, fault)

SpecQual == InitQual /\ [][NextQual]_vars

\* ------------------------------------------------------------------------
\* The concurrent specification: the tool calls of two sessions' turns on
\* the same assessment, one store operation (one await) at a time. The
\* store gives each read its own copy of the record, and update_assessment
\* sets the attributes it is given and no other
\* ------------------------------------------------------------------------

ParAnswers == {"yes", "No", NoAnswer}

ParCalls ==
    {[kind |-> "question_flow", arg |-> h, answer |-> a] : h \in FlowHints, a \in ParAnswers}
    \cup {[kind |-> "add_risk_area", arg |-> r, answer |-> NoAnswer] : r \in RiskAreaSet}

\* the call run alone on the stored record d
SerialCall(d, call) ==
    IF call.kind = "question_flow" THEN QuestionFlowResult(d, call.arg, call.answer, 0).db
    ELSE AddRiskAreaResult(d, call.arg, FALSE).db

\* stored records the two calls start from: a new assessment, and assessments
\* with one or two risk areas attached and the first question opened
ParStarts ==
    {NewAssessment,
     SerialCall(SerialCall(NewAssessment, [NoParCall EXCEPT !.kind = "add_risk_area", !.arg = "third_party"]),
                [NoParCall EXCEPT !.kind = "question_flow"]),
     SerialCall(SerialCall(SerialCall(NewAssessment,
                   [NoParCall EXCEPT !.kind = "add_risk_area", !.arg = "third_party"]),
                   [NoParCall EXCEPT !.kind = "add_risk_area", !.arg = "data_privacy"]),
                [NoParCall EXCEPT !.kind = "question_flow"])}

InitPar ==
    /\ db \in ParStarts
    /\ ctx = EmptyContext
    /\ tree = ConfiguredTree(RiskAreaIds)
    /\ turn = NoTurn
    /\ par = [NoPar EXCEPT !.base = db]

\* the position of a call that has returned
Done(local) == [local EXCEPT !.pc = "done"]

\* get_assessment, the first store operation of both tools, with what the
\* tool computes from the record before its next store operation
ParGetAssessment(s, call) ==
    /\ par.calls[s].pc = "idle"
    /\ LET local == [Idle EXCEPT !.call = call, !.snap = db]
           active == db.active_risk_areas
           first == IF active # <<>> THEN active[1] ELSE None
           r0 == IF call.arg = None \/ call.arg = "" THEN db.current_risk_area ELSE call.arg
           r1 == IF r0 # None /\ r0 \notin SeqToSet(active) THEN first ELSE r0
           risk_area == IF r1 = None THEN first ELSE r1
       IN par' = [par EXCEPT !.calls[s] =
             IF ~db.exists THEN Done(local)
             ELSE IF call.kind = "add_risk_area"
             THEN IF call.arg \in SeqToSet(active) THEN Done(local)
                  ELSE [local EXCEPT !.pc = "attach"]
             ELSE IF risk_area = None THEN Done(local)
             ELSE [local EXCEPT !.pc = "set_risk_area", !.risk_area = risk_area,
                                !.answers = GetAnswers(db.answers_by_risk_area, risk_area)]]
    /\ turn' = [NoTurn EXCEPT !.op = "get_assessment"]
    /\ UNCHANGED <<db, ctx, tree>>

\* the answer as question_flow puts it in its local answers dict, or None
\* when the validation of STEP 1 returns an error
ParValidated(local) ==
    LET question_id == local.snap.current_question_id IN
    IF question_id = None THEN None
    ELSE IF question_id \notin SeqToSet(QuestionsOf(local.risk_area)) THEN None
    ELSE IF QRequired(question_id) /\ (local.call.answer = "" \/ local.call.answer = EmptyList)
         THEN None
    ELSE NormalizeAnswer(question_id, local.call.answer)

\* the question STEP 3 opens with the local answers dict, or None
ParNextQuestion(local) ==
    FirstToShow(QuestionsOf(local.risk_area), local.answers, SkipList(local.answers),
                QuestionsOf(local.risk_area))

\* the next update_assessment of the call of session s, on the record the
\* store holds now
ParUpdateAssessment(s) ==
    LET local == par.calls[s] IN
    /\ local.pc \notin {"idle", "done"}
    /\ turn' = [NoTurn EXCEPT !.op = local.pc]
    /\ UNCHANGED <<ctx, tree>>
    /\ IF local.pc = "attach"
       THEN /\ db' = [db EXCEPT !.active_risk_areas = Append(local.snap.active_risk_areas, local.call.arg)]
            /\ par' = [par EXCEPT !.calls[s] = Done(local)]
       ELSE IF local.pc = "set_risk_area"
       THEN /\ db' = [db EXCEPT !.current_risk_area = local.risk_area]
            /\ par' = [par EXCEPT !.calls[s] =
                  IF local.call.answer = NoAnswer THEN [local EXCEPT !.pc = "skip_list"]
                  ELSE IF ParValidated(local) = None THEN Done(local)
                  ELSE [local EXCEPT !.pc = "save_answer",
                           !.answers = Put(local.answers, local.snap.current_question_id,
                                           ParValidated(local))]]
       ELSE IF local.pc = "save_answer"
       THEN /\ db' = [db EXCEPT
                  !.answers_by_risk_area =
                       Put(local.snap.answers_by_risk_area, local.risk_area, local.answers),
                  !.completion_percentage =
                       OverallProgress(db.active_risk_areas, local.snap.answers_by_risk_area,
                                       local.risk_area, local.answers),
                  !.current_question_id = None,
                  !.current_risk_area = local.risk_area]
            /\ par' = [par EXCEPT !.calls[s] = [local EXCEPT !.pc = "skip_list"]]
       ELSE IF local.pc = "skip_list"
       THEN /\ db' = [db EXCEPT !.skipped_questions = SkipList(local.answers)]
            /\ par' = [par EXCEPT !.calls[s] =
                  IF ParNextQuestion(local) = None THEN Done(local)
                  ELSE [local EXCEPT !.pc = "set_question"]]
       ELSE /\ db' = [db EXCEPT !.current_question_id = ParNextQuestion(local),
                                !.current_risk_area = local.risk_area]
            /\ par' = [par EXCEPT !.calls[s] = Done(local)]

NextPar ==
    \E s \in Sessions :
       \/ \E call \in ParCalls : ParGetAssessment(s, call)
       \/ ParUpdateAssessment(s)

SpecPar == InitPar /\ [][NextPar]_vars

\* ------------------------------------------------------------------------
\* The attachment specification: every operation that attaches risk areas
\* to an assessment, called in any order on one stored record
\* ------------------------------------------------------------------------

\* the ids attached: the catalog's risk areas and the tag get_decision_tree
\* gives the qualifying questions
AttachAreas == RiskAreaSet \cup {"qualifying"}

\* the sequences without repetition over a set (the orders list(set) can give)
Orders(S) == {o \in [1..Cardinality(S) -> S] : SeqToSet(o) = S}

\* assessment_tools.add_risk_area: the list is rebuilt from a set, in the
\* order the set iterates
AssessmentAddRiskArea(d, risk_area_id, order) ==
    IF ~d.exists \/ risk_area_id \in SeqToSet(d.active_risk_areas) THEN d
    ELSE [d EXCEPT !.active_risk_areas = order]

InitAttach ==
    /\ db = NewAssessment
    /\ ctx = EmptyContext
    /\ tree = ConfiguredTree(RiskAreaIds)
    /\ turn = NoTurn
    /\ par = NoPar

\* risk_area_tools.add_risk_area(assessment_id, risk_area_id); the history
\* keeps the id and which of the two messages the tool returned
AttachByTool(risk_area_id) ==
    /\ db' = AddRiskAreaResult(db, risk_area_id, FALSE).db
    /\ turn' = [NoTurn EXCEPT !.op = "add_risk_area", !.message = risk_area_id,
                   !.rule = IF risk_area_id \in SeqToSet(db.active_risk_areas)
                            THEN "already in active risk areas" ELSE "added"]
    /\ UNCHANGED <<ctx, par, tree>>

\* assessment_tools.add_risk_area(assessment_id, risk_area_id)
AttachByAssessmentTool(risk_area_id) ==
    /\ \E order \in Orders(SeqToSet(db.active_risk_areas) \cup {risk_area_id}) :
          db' = AssessmentAddRiskArea(db, risk_area_id, order)
    /\ turn' = [NoTurn EXCEPT !.op = "add_risk_area", !.message = risk_area_id,
                   !.rule = IF risk_area_id \in SeqToSet(db.active_risk_areas)
                            THEN "already attached" ELSE "added"]
    /\ UNCHANGED <<ctx, par, tree>>

\* the loop that ends the qualifying sub-flow, on a deduplicated list of
\* triggered ids, its k-th call failing (0: none)
AttachTriggered(triggered, k) ==
    /\ db' = AddRiskAreas(db, triggered, k)
    /\ turn' = [NoTurn EXCEPT !.op = "qualifying_attach", !.fault = [NoFault EXCEPT !.attach = k]]
    /\ UNCHANGED <<ctx, par, tree>>

\* question_flow on the qualifying questions: a yes-answer to a triggering
\* question auto-attaches its risk area (STEP 2.5); the store can fail right
\* after the attachment, before the answer is saved
AttachByQuestionFlow(answer, fail) ==
    /\ \E r \in {QuestionFlowResult(db, "qualifying", answer, fail)} :
          /\ fail # 0 => r.error = "store"
          /\ db' = r.db
          /\ turn' = [NoTurn EXCEPT !.op = "question_flow", !.qf = QfCall(answer, r),
                                    !.fault = [NoFault EXCEPT !.flow = fail]]
    /\ UNCHANGED <<ctx, par, tree>>

NextAttach ==
    \/ \E r \in AttachAreas : AttachByTool(r)
    \/ \E r \in AttachAreas : AttachByAssessmentTool(r)
    \/ \E triggered \in UNION {Orders(S) : S \in SUBSET RiskAreaSet}, k \in 0..1 :
          AttachTriggered(triggered, k)
    \/ \E answer \in {"yes", "No", NoAnswer}, fail \in {0, OpReRead} :
          AttachByQuestionFlow(answer, fail)

SpecAttach == InitAttach /\ [][NextAttach]_vars

\* ------------------------------------------------------------------------
\* The upload specification: the auto-analysis that follows a document
\* upload (session 1) runs while a tool call of a session (session 2)
\* attaches or removes a risk area of the same assessment, one store
\* operation at a time
\* ------------------------------------------------------------------------

\* the risk-area ids the analysis of the documents suggests, under the key
\* a call carries
SuggestionKeys == {"third_party", "data_privacy", "both"}

Suggested(key) == IF key = "both" THEN RiskAreaIds ELSE <<key>>

\* risk_area_tools.remove_risk_area on the stored record
RemoveRiskAreaResult(d, risk_area_id) ==
    IF ~d.exists \/ risk_area_id \notin SeqToSet(d.active_risk_areas) THEN d
    ELSE [d EXCEPT !.active_risk_areas = SelectSeq(@, LAMBDA r : r # risk_area_id)]

UploadCall == [kind |-> "auto_analysis", arg |-> "both", answer |-> NoAnswer]

WriterCalls ==
    {[kind |-> k, arg |-> r, answer |-> NoAnswer] :
        k \in {"add_risk_area", "remove_risk_area"}, r \in AttachAreas}

\* stored records the two calls start from: an assessment with none, some
\* or all of the ids attached by add_risk_area
RECURSIVE AttachedBy(_, _)
AttachedBy(d, areas) ==
    IF areas = <<>> THEN d
    ELSE AttachedBy(AddRiskAreaResult(d, Head(areas), FALSE).db, Tail(areas))

UploadStarts ==
    {AttachedBy(NewAssessment, areas) :
        areas \in {<<>>, <<"third_party">>, <<"qualifying">>, <<"data_privacy", "qualifying">>,
                   <<"third_party", "data_privacy", "qualifying">>}}

InitUpload ==
    /\ db \in UploadStarts
    /\ ctx = EmptyContext
    /\ tree = ConfiguredTree(RiskAreaIds)
    /\ turn = NoTurn
    /\ par = [NoPar EXCEPT !.base = db]

\* the get_assessment of the auto-analysis of upload_document, run once
\* the suggestions are mapped to ids
AutoAnalysisGet(key) ==
    /\ par.calls[1].pc = "idle"
    /\ par' = [par EXCEPT !.calls[1] =
                  [Idle EXCEPT !.call = [UploadCall EXCEPT !.arg = key], !.snap = db,
                               !.pc = "merge"]]
    /\ turn' = [NoTurn EXCEPT !.op = "get_assessment"]
    /\ UNCHANGED <<db, ctx, tree>>

\* its update_assessment: the ids read, merged with the suggested ones in
\* a set, written as a list in the order the set iterates
AutoAnalysisUpdate ==
    LET local == par.calls[1] IN
    /\ local.pc = "merge"
    /\ \E order \in Orders(SeqToSet(local.snap.active_risk_areas)
                               \cup SeqToSet(Suggested(local.call.arg))) :
          db' = [db EXCEPT !.active_risk_areas = order]
    /\ par' = [par EXCEPT !.calls[1] = Done(local)]
    /\ turn' = [NoTurn EXCEPT !.op = "auto_analysis"]
    /\ UNCHANGED <<ctx, tree>>

\* the get_assessment of add_risk_area or remove_risk_area
WriterGet(call) ==
    /\ par.calls[2].pc = "idle"
    /\ LET local == [Idle EXCEPT !.call = call, !.snap = db]
           attached == call.arg \in SeqToSet(db.active_risk_areas)
       IN par' = [par EXCEPT !.calls[2] =
             IF call.kind = "add_risk_area"
             THEN IF attached THEN Done(local) ELSE [local EXCEPT !.pc = "attach"]
             ELSE IF attached THEN [local EXCEPT !.pc = "detach"] ELSE Done(local)]
    /\ turn' = [NoTurn EXCEPT !.op = "get_assessment"]
    /\ UNCHANGED <<db, ctx, tree>>

\* its update_assessment, with the list computed from the record it read
WriterUpdate ==
    LET local == par.calls[2] IN
    /\ local.pc \in {"attach", "detach"}
    /\ db' = [db EXCEPT !.active_risk_areas =
                 IF local.pc = "attach"
                 THEN AddRiskAreaResult(local.snap, local.call.arg, FALSE).db.active_risk_areas
                 ELSE RemoveRiskAreaResult(local.snap, local.call.arg).active_risk_areas]
    /\ par' = [par EXCEPT !.calls[2] = Done(local)]
    /\ turn' = [NoTurn EXCEPT !.op = local.call.kind]
    /\ UNCHANGED <<ctx, tree>>

NextUpload ==
    \/ \E key \in SuggestionKeys : AutoAnalysisGet(key)
    \/ AutoAnalysisUpdate
    \/ \E call \in WriterCalls : WriterGet(call)
    \/ WriterUpdate

SpecUpload == InitUpload /\ [][NextUpload]_vars

\* ------------------------------------------------------------------------
\* The counting specification: _count_applicable_questions and the
\* percentage of question_flow applied to every answer dict over the
\* questions of one risk area, and to the dict with one more answer
\* ------------------------------------------------------------------------

\* the answer values of the dicts
CountValues == {"Yes", "No", "maybe"}

\* the risk areas counted: the catalog's, and an id that add_risk_area
\* attached and the catalog does not know
CountAreas == RiskAreaSet \cup {"data_security"}

\* every answer dict over the questions of the area
AnswerDicts(area) == UNION {[S -> CountValues] : S \in SUBSET SeqToSet(QuestionsOf(area))}

\* the area and the answers the record is counted on
CountedArea(d) == d.active_risk_areas[1]

CountedAnswers(d) == GetAnswers(d.answers_by_risk_area, CountedArea(d))

\* the counts of the record, and the record with the percentage
\* question_flow derives from them
Counts(d) == CountApplicableQuestions(CountedArea(d), CountedAnswers(d))

WithProgress(d) ==
    [d EXCEPT !.completion_percentage = The({Percentage(c[2], c[1]) : c \in {Counts(d)}})]

InitCount ==
    /\ \E area \in CountAreas : \E answers \in AnswerDicts(area) :
          db = [NewAssessment EXCEPT !.active_risk_areas = <<area>>,
                                     !.answers_by_risk_area = Put(<<>>, area, answers)]
    /\ ctx = EmptyContext
    /\ tree = ConfiguredTree(RiskAreaIds)
    /\ turn = NoTurn
    /\ par = NoPar

\* the counts and the percentage are computed on the record as it is
CountProgress ==
    /\ turn.op = "init"
    /\ db' = WithProgress(db)
    /\ turn' = [NoTurn EXCEPT !.op = "count"]
    /\ UNCHANGED <<ctx, par, tree>>

\* one more answer is put in the dict, and the counts and the percentage
\* are computed again
CountAddAnswer(q, value) ==
    /\ q \in SeqToSet(QuestionsOf(CountedArea(db))) \ DOMAIN CountedAnswers(db)
    /\ turn.op # "add_answer"
    /\ db' = WithProgress([db EXCEPT !.answers_by_risk_area =
                              Put(@, CountedArea(db), Put(CountedAnswers(db), q, value))])
    /\ turn' = [NoTurn EXCEPT !.op = "add_answer", !.message = q]
    /\ UNCHANGED <<ctx, par, tree>>

NextCount ==
    \/ CountProgress
    \/ \E q \in AllQuestionIds, value \in CountValues : CountAddAnswer(q, value)

SpecCount == InitCount /\ [][NextCount]_vars

\* ------------------------------------------------------------------------
\* The filter specification: _should_show_question applied, as the loop of
\* question_flow STEP 3 applies it, to every question of a risk area under
\* every answer dict and skip list
\* ------------------------------------------------------------------------

\* the risk areas whose questions are filtered
ShowAreas == RiskAreaSet \cup {LegacyArea}

\* the values a stored answer takes: an option value for a select question,
\* the text as typed for a text question
ShowValues(q) == IF QType(q) = "text" THEN {"Yes", "yes", "No"} ELSE {"Yes", "No"}

\* every answer dict over the questions of the area
ShowDicts(area) ==
    UNION {{f \in [S -> {"Yes", "yes", "No"}] : \A q \in S : f[q] \in ShowValues(q)} :
             S \in SUBSET SeqToSet(QuestionsOf(area))}

InitShow ==
    /\ \E area \in ShowAreas : \E answers \in ShowDicts(area) :
       \E skipped \in SUBSET SeqToSet(QuestionsOf(area)) :
          db = [NewAssessment EXCEPT !.active_risk_areas = <<area>>,
                                     !.current_risk_area = area,
                                     !.answers_by_risk_area = Put(<<>>, area, answers),
                                     !.skipped_questions = skipped]
    /\ ctx = EmptyContext
    /\ tree = ConfiguredTree(RiskAreaIds \o <<LegacyArea>>)
    /\ turn = NoTurn
    /\ par = NoPar

\* the filter is applied to question q: q becomes the next question when it
\* is to be shown
ShowQuestion(q) ==
    /\ turn.op = "init"
    /\ q \in SeqToSet(QuestionsOf(db.current_risk_area))
    /\ db' = [db EXCEPT !.current_question_id =
                 IF ShouldShowQuestion(q, GetAnswers(db.answers_by_risk_area, db.current_risk_area),
                                       db.skipped_questions, QuestionsOf(db.current_risk_area))
                 THEN q ELSE None]
    /\ turn' = [NoTurn EXCEPT !.op = "show", !.message = q]
    /\ UNCHANGED <<ctx, par, tree>>

NextShow == \E q \in AllQuestionIds : ShowQuestion(q)

SpecShow == InitShow /\ [][NextShow]_vars

\* ------------------------------------------------------------------------
\* The answer specification: question_flow called on an assessment whose
\* risk area has a multiselect and a select question, with answers given as
\* single words, comma-separated strings and lists
\* ------------------------------------------------------------------------

\* the answers of the calls
OptionAnswers ==
    {"Yes", "yes", "Y", "N", "maybe", "", " ", "Yes, maybe", "no,YES"} \cup ListAnswers

InitAnswer ==
    /\ db = [NewAssessment EXCEPT !.active_risk_areas = <<OptionArea>>]
    /\ ctx = EmptyContext
    /\ tree = ConfiguredTree(<<OptionArea>>)
    /\ turn = NoTurn
    /\ par = NoPar

\* question_flow(assessment_id, None, answer); the history keeps the answer
AnswerFlow(answer) ==
    \E r \in {QuestionFlowResult(db, None, answer, 0)} :
    /\ db' = r.db
    /\ turn' = [NoTurn EXCEPT !.op = "question_flow", !.message = answer,
                              !.qf = QfCall(answer, r)]
    /\ UNCHANGED <<ctx, par, tree>>

NextAnswer == \E answer \in OptionAnswers \cup {NoAnswer} : AnswerFlow(answer)

SpecAnswer == InitAnswer /\ [][NextAnswer]_vars

\* ------------------------------------------------------------------------
\* The loader specification: get_decision_tree called in a fresh process on
\* every catalog document over the model's questions, in both shapes
\* ------------------------------------------------------------------------

\* the risk-area lists of the documents: up to two areas, either order
DocAreaLists ==
    {<<>>} \cup {<<a>> : a \in RiskAreaSet}
           \cup {p \in RiskAreaSet \X RiskAreaSet : p[1] # p[2]}

\* the documents with these risk areas, each area with a prefix of its
\* questions
DocumentsOver(shape, qualifying, area_ids) ==
    IF area_ids = <<>> THEN {CatalogDocument(shape, qualifying, <<>>)}
    ELSE IF Len(area_ids) = 1
         THEN {CatalogDocument(shape, qualifying, <<DocArea(area_ids[1], n)>>) :
                  n \in 0..Len(QuestionsOf(area_ids[1]))}
    ELSE {CatalogDocument(shape, qualifying, <<DocArea(area_ids[1], n), DocArea(area_ids[2], m)>>) :
             n \in 0..Len(QuestionsOf(area_ids[1])), m \in 0..Len(QuestionsOf(area_ids[2]))}

Documents ==
    {UnreadableDocument} \cup
    UNION {DocumentsOver(shape, SubSeq(QualifyingQuestions, 1, k), area_ids) :
             shape \in {"dict", "list"}, k \in 0..Len(QualifyingQuestions),
             area_ids \in DocAreaLists}

InitLoad ==
    /\ db = NoAssessment
    /\ ctx = EmptyContext
    /\ turn = NoTurn
    /\ par = NoPar
    /\ tree = NotLoaded

\* the first call of get_decision_tree in the process: the document is read
\* and the structure built from it is cached; the history keeps the document
LoadCatalog(doc) ==
    /\ tree = NotLoaded
    /\ tree' = GetDecisionTree(doc)
    /\ turn' = [NoTurn EXCEPT !.op = "load", !.message = doc]
    /\ UNCHANGED <<db, ctx, par>>

\* a later call returns the cached structure
CachedCatalog ==
    /\ tree # NotLoaded
    /\ turn.op = "load"
    /\ turn' = [turn EXCEPT !.op = "cached"]
    /\ UNCHANGED <<db, ctx, par, tree>>

NextLoad ==
    \/ \E doc \in Documents : LoadCatalog(doc)
    \/ CachedCatalog

SpecLoad == InitLoad /\ [][NextLoad]_vars

\* ------------------------------------------------------------------------
\* The submission specification: question_flow and update_state called on
\* an assessment with the two risk areas attached
\* ------------------------------------------------------------------------

\* the values of AssessmentState
AssessmentStates == {"draft", "submitted", "under_review", "sent_back", "finalized"}

\* update_state on the stored record
UpdateStateResult(d, new_state) ==
    IF new_state \notin AssessmentStates THEN [db |-> d, success |-> FALSE]
    ELSE [db |-> [d EXCEPT !.current_state = new_state], success |-> TRUE]

\* the states the callers of the model pass: the one the finalization sets,
\* and one that is no state
SubmitStates == {"submitted", "locked"}

\* the answers of the calls
SubmitAnswers == {"Yes", "No"}

\* the risk_area arguments of the calls: none, an attached or unattached
\* risk area of the catalog, and an id the catalog does not know
SubmitHints == FlowHints \cup {"data_security"}

InitSubmit ==
    /\ \E active \in {<<>>, <<"data_privacy">>, RiskAreaIds} :
          db = [NewAssessment EXCEPT !.active_risk_areas = active]
    /\ ctx = EmptyContext
    /\ turn = NoTurn
    /\ par = NoPar
    /\ tree = ConfiguredTree(RiskAreaIds)

\* update_state(assessment_id, new_state), once per state of the record
CallUpdateState(new_state) ==
    \E r \in {UpdateStateResult(db, new_state)} :
    /\ turn.op # "update_state"
    /\ db.current_state # new_state
    /\ db' = r.db
    /\ turn' = [NoTurn EXCEPT !.op = "update_state", !.message = new_state]
    /\ UNCHANGED <<ctx, par, tree>>

\* question_flow(assessment_id, hint, answer); the history keeps the hint
HintedFlow(hint, answer) ==
    \E r \in {QuestionFlowResult(db, hint, answer, 0)} :
    /\ db' = r.db
    /\ turn' = [NoTurn EXCEPT !.op = "question_flow", !.message = hint,
                              !.qf = QfCall(answer, r)]
    /\ UNCHANGED <<ctx, par, tree>>

NextSubmit ==
    \/ \E hint \in SubmitHints, answer \in SubmitAnswers \cup {NoAnswer} :
          HintedFlow(hint, answer)
    \/ \E new_state \in SubmitStates : CallUpdateState(new_state)

SpecSubmit == InitSubmit /\ [][NextSubmit]_vars

\* ------------------------------------------------------------------------
\* The legacy specification: question_flow called on an assessment with
\* the legacy risk area (conditions, depends_on and show_questions) and a
\* risk area with a skip rule attached
\* ------------------------------------------------------------------------

LegacyAreas == <<LegacyArea, "third_party">>

\* the answers of the calls
LegacyAnswers == {"Yes", "yes", "No"}

\* the risk_area arguments of the calls
LegacyHints == SeqToSet(LegacyAreas) \cup {None}

InitLegacy ==
    /\ db = [NewAssessment EXCEPT !.active_risk_areas = LegacyAreas]
    /\ ctx = EmptyContext
    /\ tree = ConfiguredTree(LegacyAreas)
    /\ turn = NoTurn
    /\ par = NoPar

NextLegacy ==
    \E hint \in LegacyHints, answer \in LegacyAnswers \cup {NoAnswer} : HintedFlow(hint, answer)

SpecLegacy == InitLegacy /\ [][NextLegacy]_vars

\* ------------------------------------------------------------------------
\* The removal specification: add_risk_area, remove_risk_area (of both
\* tool modules) and question_flow called in any order on one assessment
\* ------------------------------------------------------------------------

\* assessment_tools.remove_risk_area: the list is rebuilt from a set, in
\* the order the set iterates
AssessmentRemoveRiskArea(d, risk_area_id, order) ==
    IF ~d.exists \/ risk_area_id \notin SeqToSet(d.active_risk_areas) THEN d
    ELSE [d EXCEPT !.active_risk_areas = order]

\* the answers of the calls
RemoveAnswers == {"Yes", "No"}

\* risk_area_tools.remove_risk_area(assessment_id, risk_area_id)
RemoveByTool(risk_area_id) ==
    /\ db' = RemoveRiskAreaResult(db, risk_area_id)
    /\ turn' = [NoTurn EXCEPT !.op = "remove_risk_area", !.message = risk_area_id]
    /\ UNCHANGED <<ctx, par, tree>>

\* assessment_tools.remove_risk_area(assessment_id, risk_area_id)
RemoveByAssessmentTool(risk_area_id) ==
    /\ \E order \in Orders(SeqToSet(db.active_risk_areas) \ {risk_area_id}) :
          db' = AssessmentRemoveRiskArea(db, risk_area_id, order)
    /\ turn' = [NoTurn EXCEPT !.op = "remove_risk_area", !.message = risk_area_id]
    /\ UNCHANGED <<ctx, par, tree>>

NextRemove ==
    \/ \E r \in RiskAreaSet : AttachByTool(r)
    \/ \E r \in RiskAreaSet : RemoveByTool(r)
    \/ \E r \in RiskAreaSet : RemoveByAssessmentTool(r)
    \/ \E hint \in FlowHints, answer \in RemoveAnswers \cup {NoAnswer} : HintedFlow(hint, answer)

SpecRemove == InitFlow /\ [][NextRemove]_vars

\* ------------------------------------------------------------------------
\* Claims about question_flow (checked under SpecFlow)
\* ------------------------------------------------------------------------

\* the progress the persisted record should carry: the counts of
\* _count_applicable_questions on the persisted answers of all active areas
PersistedProgress(d) ==
    LET seen == [a \in SeqToSet(d.active_risk_areas) |-> GetAnswers(d.answers_by_risk_area, a)]
    IN Percentage(SumCounts(d.active_risk_areas, seen, 2), SumCounts(d.active_risk_areas, seen, 1))

\* C3: a question_flow call that carries an answer and meets a store failure
\* leaves the persisted assessment exactly as it was before the call, and a
\* call that succeeds has saved the answer and opened the next question or
\* reported completion.
C3_AllOrNothing ==
    [][\A hint \in FlowHints, answer \in FlowAnswers, fail \in FailPoints :
          CallQuestionFlow(hint, answer, fail) =>
             LET r == QuestionFlowResult(db, hint, answer, fail) IN
             /\ r.error = "store" => db' = db
             /\ r.success => r.saved /\ db'.skipped_questions = SkipList(GetAnswers(db'.answers_by_risk_area, r.risk_area))
      ]_vars

\* C4: after a question_flow call that saved an answer, the persisted
\* completion_percentage is the one derived from the persisted answers of
\* all active risk areas.
C4_CompletionDerived ==
    (turn.op = "question_flow" /\ turn.qf.saved) =>
        db.completion_percentage = PersistedProgress(db)

\* C5: whenever current_question_id is set it is a question of the catalog
\* list of current_risk_area.
C5_CurrentQuestionInCurrentArea ==
    db.current_question_id # None =>
        db.current_question_id \in SeqToSet(QuestionsOf(db.current_risk_area))

\* ------------------------------------------------------------------------
\* Claims about the router (checked under Spec)
\* ------------------------------------------------------------------------

C2_QualifyingExclusive ==
    [][(ctx.qualifying_questions_mode /\ ~IsResetMessage(turn'.message))
          => (turn'.rule = "qualifying_questions_mode" /\ turn'.handler = "question")]_vars

\* C6: when awaiting_risk_area_selection is set and the message is a number
\* indexing remaining_risk_area_ids or names one of them, the turn (free of
\* store faults) ends with the flag cleared, the context's risk_area the
\* selected id, and the question flow run for it.
C6_SelectionRunsQuestionFlow ==
    [][( /\ IsAwaitedSelection(turn'.message, ctx)
         /\ turn'.rule \in {"risk_area_number_selection", "risk_area_name_selection"}
         /\ turn'.fault = NoFault )
          => /\ ~ctx'.awaiting_risk_area_selection
             /\ ctx'.risk_area = AgentSelection(turn'.message, ctx.remaining_risk_area_ids)
             /\ turn'.qf.called
             /\ db'.current_risk_area = ctx'.risk_area]_vars

\* C7: on a turn decided by the classifier's output, a confidence below 0.7
\* or a category list that is not exactly one category ends the turn with a
\* clarification and no handler invoked.
C7_NoGuessing ==
    [][turn'.rule = "slm" =>
          \A llm \in LlmResponses :
             ( /\ Turn(turn'.message, llm, turn'.fault)
               /\ (llm.confidence < ConfidenceFloor \/ Len(llm.intent) # 1) )
                => turn'.handler = None]_vars

\* the rule of the fixed order that a recorded check belongs to; the checks of
\* invoke_async that are not rules of the order keep their own name
RuleGroup(rule) ==
    IF rule \in {"risk_area_number_selection", "risk_area_name_selection"} THEN "awaiting_selection"
    ELSE IF rule \in {"slm", "regex", "keyword", "none"} THEN "classifier"
    ELSE rule

\* the first rule that matches in the order 1..11 as the claim states it
\* (rules 10 and 11 are one group: the classifier with its fallback)
FirstMatchingRule(message, c, d) ==
    IF IsResetMessage(message) THEN "reset"
    ELSE IF c.qualifying_questions_mode THEN "qualifying_questions_mode"
    ELSE IF IsFinalize(message) THEN "priority_finalize"
    ELSE IF IsReview(message) THEN "priority_review"
    ELSE IF IsAwaitedSelection(message, c) THEN "awaiting_selection"
    ELSE IF c.assessment_id /\ d.exists /\ d.current_question_id # None
    THEN "answering_current_question"
    ELSE IF /\ ~c.available_risk_areas
            /\ \E i \in 1..Len(d.active_risk_areas) : NamesRiskArea(message, d.active_risk_areas[i])
    THEN "risk_area_selection"
    ELSE IF IsFollowUp(message, c) /\ c.last_routed_agent # None THEN "follow_up"
    ELSE IF IsQuestionIntent(message) THEN "question_intent"
    ELSE "classifier"

\* C8: the check that decides a turn is the first matching rule of the fixed
\* order reset, qualifying mode, finalize, review, awaited selection, open
\* question, active risk-area name, follow-up, start/begin question,
\* classifier and fallback: no later rule and no other check takes effect
C8_FirstMatchWins ==
    [][RuleGroup(turn'.rule) = FirstMatchingRule(turn'.message, ctx, db)]_vars

\* C9: after every turn in which a handler processed the message, the
\* context's last_routed_agent is the category of that handler.
C9_LastRoutedAgentIsHandler ==
    (turn.op = "turn" /\ turn.handler # None) => ctx.last_routed_agent = turn.handler

\* the turn moved sub-flow state forward: the open question or the answers of
\* the context's assessment changed (a turn that creates an assessment points
\* the context at a fresh record instead), or the qualifying sub-flow moved to
\* another question
Advances ==
    \/ /\ ~(turn'.handler = "assessment" /\ db' = NewAssessment)
       /\ \/ db'.current_question_id # db.current_question_id
          \/ db'.answers_by_risk_area # db.answers_by_risk_area
    \/ ctx'.current_qualifying_question \notin {None, ctx.current_qualifying_question}

\* C10 (as stated): a turn resolved by rule 1, 3, 4, 10 or 11 never advances
\* sub-flow state.
C10_NoAdvanceOnRules ==
    [][turn'.rule \in {"reset", "priority_finalize", "priority_review",
                       "slm", "regex", "keyword", "none"} => ~Advances]_vars

\* C10 (amended): a turn resolved by rule 1, 3 or 4, or by rule 10 or 11
\* without handing the message to the Question Agent, never advances
\* sub-flow state.
C10_NoAdvanceUnlessQuestionAgent ==
    [][( \/ turn'.rule \in {"reset", "priority_finalize", "priority_review"}
         \/ /\ turn'.rule \in {"slm", "regex", "keyword", "none"}
            /\ turn'.handler # "question" ) => ~Advances]_vars

\* a finalize phrase sent while a question is open went to the status
\* handler and left the question open
C10_Witness ==
    /\ turn.rule = "priority_finalize"
    /\ turn.handler = "status"
    /\ ctx.assessment_id
    /\ db.current_question_id # None

\* C29: a turn decided by rule 6 (a question is open) takes the message as
\* the answer to that question: the Question Agent calls question_flow with
\* the message as the answer, whatever words the message contains.
C29_OpenQuestionTakesAnswer ==
    [][(turn'.rule = "answering_current_question" /\ turn'.fault = NoFault)
          => turn'.handler = "question" /\ turn'.qf.called /\ turn'.qf.answered]_vars

\* C30: a turn is decided by rule 7 (risk-area name) only when the message
\* names a risk area of active_risk_areas and no menu of available risk
\* areas is pending, and in that turn the question flow runs on the risk
\* area the message names.
C30_NameMatchIsActiveArea ==
    [][(turn'.rule = "risk_area_selection" /\ turn'.fault = NoFault)
          => /\ ~ctx.available_risk_areas
             /\ \E i \in 1..Len(db.active_risk_areas) :
                   /\ NamesRiskArea(turn'.message, db.active_risk_areas[i])
                   /\ turn'.qf.called
                   /\ db'.current_risk_area = db.active_risk_areas[i]]_vars

\* the active risk areas other than done that have fewer answered than
\* applicable questions on the stored answers
IncompleteOthers(d, done) ==
    SelectSeq(d.active_risk_areas, LAMBDA r :
        /\ r # done
        /\ CountApplicableQuestions(r, GetAnswers(d.answers_by_risk_area, r))[2]
             < CountApplicableQuestions(r, GetAnswers(d.answers_by_risk_area, r))[1])

C32_WitnessAllDone ==
    /\ turn.qf.called /\ turn.qf.success /\ turn.qf.completed
    /\ Len(db.active_risk_areas) = 1
    /\ ~ctx.awaiting_risk_area_selection

\* ------------------------------------------------------------------------
\* Claims about the qualifying sub-flow (checked under SpecQual)
\* ------------------------------------------------------------------------

\* a turn the qualifying sub-flow handled and in which it read the
\* assessment, the question q being the open one
QualifyingTurn(q) ==
    /\ turn'.rule = "qualifying_questions_mode"
    /\ ~turn'.fault.agent_read
    /\ ctx.current_qualifying_question = q

\* the sub-flow has moved from q to the next question of the catalog or,
\* from the last, has ended and removed its keys from the context
AdvancedFrom(q) ==
    LET i == IndexOf(QualifyingQuestions, q)
    IN IF i < Len(QualifyingQuestions)
       THEN /\ ctx'.qualifying_questions_mode
            /\ ctx'.current_qualifying_question = QualifyingQuestions[i + 1]
       ELSE /\ ~ctx'.qualifying_questions_mode
            /\ ctx'.current_qualifying_question = None
            /\ ctx'.qualifying_answers = <<>>
            /\ ctx'.triggered_risk_areas = <<>>

YesTriggers(answers) ==
    {TriggeredAreaId(QualTrigger(q)) :
        q \in {x \in DOMAIN answers : IsYesAnswer(answers[x]) /\ QualTrigger(x) # None}}

\* C34: the turn that ends a qualifying run attaches exactly the risk
\* areas triggered by the questions answered yes during that run (the
\* answers collected since the run began): no id of an earlier, abandoned
\* run is attached.
C34_AttachedAreTriggered ==
    [][(/\ QualifyingTurn(QualifyingQuestions[Len(QualifyingQuestions)])
        /\ turn'.fault = NoFault
        /\ turn'.message # "start qualifying questions")
          => SeqToSet(db'.active_risk_areas)
               = SeqToSet(db.active_risk_areas)
                   \cup YesTriggers(Put(ctx.qualifying_answers,
                                       ctx.current_qualifying_question, turn'.message))]_vars

\* the sub-flows a context has open
OpenSubFlows(c) ==
    {f \in {"qualifying", "selection", "menu"} :
        \/ f = "qualifying" /\ c.qualifying_questions_mode
        \/ f = "selection" /\ c.awaiting_risk_area_selection
        \/ f = "menu" /\ c.available_risk_areas}

\* C39: a session has at most one sub-flow open: of
\* qualifying_questions_mode, awaiting_risk_area_selection and a pending
\* available_risk_areas menu, no two are set in the same context.
C39_OneSubFlow ==
    Cardinality(OpenSubFlows(ctx)) <= 1

\* ------------------------------------------------------------------------
\* Claims about the safe word and the classifier (checked under Spec)
\* ------------------------------------------------------------------------

\* C11: a message that contains a reset keyword leaves the session context
\* with nothing but the session id, invokes no handler, calls no tool and
\* writes nothing to the persisted assessment, whatever question was open
\* and whatever sub-flow was active.
C11_ResetWipesContext ==
    [][IsResetMessage(turn'.message) =>
          /\ ctx' = EmptyContext
          /\ db' = db
          /\ turn'.rule = "reset"
          /\ turn'.handler = None
          /\ ~turn'.qf.called
          /\ ~turn'.llm_called
      ]_vars

\* a reset has just wiped a context that held an assessment, while a
\* question of that assessment is still open in the store
C11_Witness ==
    /\ turn.rule = "reset"
    /\ IsResetMessage(turn.message)
    /\ ctx = EmptyContext
    /\ db.exists
    /\ db.current_question_id # None

\* C12: a classifier call that raises, or whose reply is not JSON, never
\* makes the router select a handler from that reply: the turn is decided by
\* the fallback patterns or ends in a clarification with no handler invoked.
C12_FailsClosed ==
    [][\A llm \in LlmResponses :
          ( /\ llm.kind \in {"error", "text"}
            /\ ReachesClassifier(turn'.message, ctx, db, turn'.fault)
            /\ Turn(turn'.message, llm, turn'.fault) )
             => (turn'.rule = "slm" => turn'.handler = None)
      ]_vars

\* ------------------------------------------------------------------------
\* Claims about the failures of question_flow (checked under SpecFlow)
\* ------------------------------------------------------------------------

\* C13: a question_flow call in which the assessment lookup, the catalog
\* lookup or a store write fails comes back as a result with success = false
\* and an error, never as a success.
C13_FailureIsStructuredError ==
    (turn.op = "question_flow" /\ turn.fault.flow # 0) => (~turn.qf.success /\ turn.qf.error # None)

\* ------------------------------------------------------------------------
\* Claims about the end-to-end scenarios of question_flow (checked under
\* SpecFlow; data_privacy is the catalog [A, B dependsOn A = "Yes"] and
\* third_party the catalog [A (onYes skips C), B, C])
\* ------------------------------------------------------------------------

\* the step is a question_flow call with this answer, any risk-area hint,
\* that met no failure
FlowCall(answer) == \E hint \in FlowHints : CallQuestionFlow(hint, answer, 0)

\* C17: with data_privacy the one active risk area and no answers stored, a
\* call without an answer opens A (DP-01); answering "Yes" stores A and opens
\* B (DP-02); answering "No" stores B and returns completed = true, and the
\* persisted completion_percentage is then 100.
C17_DependsOnScenario ==
    [][db.active_risk_areas = <<"data_privacy">> =>
          /\ (db.answers_by_risk_area = <<>> /\ FlowCall(NoAnswer))
                => /\ turn'.qf.success /\ ~turn'.qf.completed
                   /\ db'.current_question_id = "DP-01"
                   /\ db'.answers_by_risk_area = <<>>
          /\ ( /\ db.answers_by_risk_area = <<>>
               /\ db.current_question_id = "DP-01"
               /\ FlowCall("Yes") )
                => /\ turn'.qf.success /\ turn'.qf.saved /\ ~turn'.qf.completed
                   /\ db'.answers_by_risk_area = Put(<<>>, "data_privacy", Put(<<>>, "DP-01", "Yes"))
                   /\ db'.current_question_id = "DP-02"
          /\ ( /\ db.answers_by_risk_area = Put(<<>>, "data_privacy", Put(<<>>, "DP-01", "Yes"))
               /\ db.current_question_id = "DP-02"
               /\ FlowCall("No") )
                => /\ turn'.qf.success /\ turn'.qf.saved /\ turn'.qf.completed
                   /\ db'.answers_by_risk_area =
                        Put(<<>>, "data_privacy", Put(Put(<<>>, "DP-01", "Yes"), "DP-02", "No"))
                   /\ db'.current_question_id = None
                   /\ db'.completion_percentage = 1000
      ]_vars

\* the scenario has run to its end: B was answered "No", the call returned
\* completed, A = "Yes" and B = "No" are stored and the percentage is 100
C17_Witness ==
    /\ turn.op = "question_flow" /\ turn.qf.completed /\ turn.qf.saved
    /\ db.active_risk_areas = <<"data_privacy">>
    /\ db.answers_by_risk_area =
          Put(<<>>, "data_privacy", Put(Put(<<>>, "DP-01", "Yes"), "DP-02", "No"))
    /\ db.completion_percentage = 1000

\* the stored answers of third_party
ThirdPartyAnswers(d) == GetAnswers(d.answers_by_risk_area, "third_party")

\* C18: with third_party the one active risk area (A = TP-01 whose onYes
\* skips C = TP-03, B = TP-02), answering A "Yes" makes the call return B;
\* from then on C is never opened or answered and the applicable count of
\* the area is 2.
C18_SkipListScenario ==
    [][db.active_risk_areas = <<"third_party">> =>
          /\ ( /\ db.answers_by_risk_area = <<>>
               /\ db.current_question_id = "TP-01"
               /\ FlowCall("Yes") )
                => /\ turn'.qf.success /\ turn'.qf.saved /\ ~turn'.qf.completed
                   /\ ThirdPartyAnswers(db') = Put(<<>>, "TP-01", "Yes")
                   /\ db'.skipped_questions = {"TP-03"}
                   /\ db'.current_question_id = "TP-02"
          /\ ("TP-01" \in DOMAIN ThirdPartyAnswers(db) /\ ThirdPartyAnswers(db)["TP-01"] = "Yes")
                => /\ db'.current_question_id # "TP-03"
                   /\ "TP-03" \notin DOMAIN ThirdPartyAnswers(db')
                   /\ CountApplicableQuestions("third_party", ThirdPartyAnswers(db'))[1] = 2
      ]_vars

\* the area has been completed with A = "Yes" and B answered, C never asked
C18_Witness ==
    /\ turn.op = "question_flow" /\ turn.qf.completed /\ turn.qf.saved
    /\ db.active_risk_areas = <<"third_party">>
    /\ DOMAIN ThirdPartyAnswers(db) = {"TP-01", "TP-02"}
    /\ ThirdPartyAnswers(db)["TP-01"] = "Yes"
    /\ db.skipped_questions = {"TP-03"}
    /\ CountApplicableQuestions("third_party", ThirdPartyAnswers(db)) = <<2, 2>>

\* C21: the skip list a question_flow call stores is the one derived from
\* the answers of the risk area the call works on and from nothing else: it
\* is rebuilt on every call that returns a question or completion, whatever
\* skipped_questions held before the call.
C21_SkipListRebuilt ==
    [][(turn'.op = "question_flow" /\ turn'.qf.success /\ turn'.fault.flow = 0)
          => db'.skipped_questions =
                SkipList(GetAnswers(db'.answers_by_risk_area, db'.current_risk_area))]_vars

\* a call on data_privacy has returned while third_party holds TP-01 = "Yes",
\* whose call had stored the skip list {TP-03}: the stored list is now the
\* one of the data_privacy answers, which is empty
C21_Witness ==
    /\ turn.op = "question_flow" /\ turn.qf.success /\ turn.fault.flow = 0
    /\ db.current_risk_area = "data_privacy"
    /\ "TP-01" \in DOMAIN ThirdPartyAnswers(db) /\ ThirdPartyAnswers(db)["TP-01"] = "Yes"
    /\ db.skipped_questions = {}

\* the position of a question in the catalog list of a risk area, 0 if absent
PositionIn(q, questions) ==
    IF q \in SeqToSet(questions)
    THEN CHOOSE i \in 1..Len(questions) : questions[i] = q
    ELSE 0

\* C31: whenever question_flow returns a next question, that question is
\* the first in catalog order of the target risk area that is to be shown
\* on the current answers and skip list, and the persisted
\* current_question_id and current_risk_area are that question and that
\* risk area.
C31_NextIsFirstToShow ==
    (turn.op = "question_flow" /\ turn.qf.success /\ ~turn.qf.completed) =>
       LET area == db.current_risk_area
           questions == QuestionsOf(area)
           answers == GetAnswers(db.answers_by_risk_area, area)
           n == PositionIn(db.current_question_id, questions)
       IN /\ area \in SeqToSet(db.active_risk_areas)
          /\ n > 0
          /\ ShouldShowQuestion(questions[n], answers, db.skipped_questions, questions)
          /\ \A i \in 1..(n - 1) :
                ~ShouldShowQuestion(questions[i], answers, db.skipped_questions, questions)

\* a call has returned TP-02 of third_party: TP-01 before it is answered
\* "Yes", and TP-03 after it is on the skip list
C31_Witness ==
    /\ turn.op = "question_flow" /\ turn.qf.success /\ ~turn.qf.completed
    /\ db.current_risk_area = "third_party" /\ db.current_question_id = "TP-02"
    /\ DOMAIN ThirdPartyAnswers(db) = {"TP-01"}
    /\ db.skipped_questions = {"TP-03"}

\* ------------------------------------------------------------------------
\* Claims about the attachment of risk areas
\* ------------------------------------------------------------------------

\* the risk areas triggered when the answer to the last qualifying question
\* has been recorded
TriggeredAtEnd(message, c) ==
    SeqToSet(c.triggered_risk_areas)
    \cup (IF IsYesAnswer(message) /\ QualTrigger(c.current_qualifying_question) # None
          THEN {TriggeredAreaId(QualTrigger(c.current_qualifying_question))} ELSE {})

\* C15: the turn that answers the last qualifying question attaches either
\* all of the triggered risk areas or none of them: the persisted
\* active_risk_areas never gains a strict subset of them (checked under Spec).
C15_AttachAllOrNone ==
    [][( /\ ctx.qualifying_questions_mode
         /\ ctx.current_qualifying_question = QualifyingQuestions[Len(QualifyingQuestions)]
         /\ turn'.rule = "qualifying_questions_mode"
         /\ ~ctx'.qualifying_questions_mode )
        => \/ TriggeredAtEnd(turn'.message, ctx) \subseteq SeqToSet(db'.active_risk_areas)
           \/ db' = db
      ]_vars

\* C16: whatever sequence of add_risk_area calls, question_flow
\* auto-attachments and qualifying attachments has run, active_risk_areas
\* holds no id twice, and an add_risk_area call for an id that is already
\* attached leaves the assessment as it was (checked under SpecAttach).
C16_AttachIdempotent ==
    [][ /\ Cardinality(SeqToSet(db'.active_risk_areas)) = Len(db'.active_risk_areas)
        /\ (turn'.op = "add_risk_area" /\ turn'.message \in SeqToSet(db.active_risk_areas))
              => db' = db
      ]_vars

\* an add_risk_area call has just met an id that was already attached, on
\* an assessment that holds every id that can be attached
C16_Witness ==
    /\ turn.op = "add_risk_area"
    /\ turn.rule = "already in active risk areas"
    /\ SeqToSet(db.active_risk_areas) = AttachAreas
    /\ db.answers_by_risk_area # <<>>

\* ------------------------------------------------------------------------
\* Claims about the counts and the percentage (checked under SpecCount)
\* ------------------------------------------------------------------------

\* C19: for a fixed risk area the applicable count never decreases when an
\* answer is added to the answer dict.
C19_NeverDecreases ==
    [][turn'.op = "add_answer" => Counts(db')[1] >= Counts(db)[1]]_vars

\* C19, amended: for a fixed risk area the applicable count never decreases
\* when an answer is added that puts no further question on the skip list.
C19_NeverDecreasesWithoutSkip ==
    [][(turn'.op = "add_answer" /\ SkipList(CountedAnswers(db')) = SkipList(CountedAnswers(db)))
          => Counts(db')[1] >= Counts(db)[1]]_vars

\* the answer to DP-01 was added to the empty dict: the skip list is empty
\* as before and the count has gone from 1 to 2
C19_Witness ==
    /\ turn.op = "add_answer" /\ turn.message = "DP-01"
    /\ CountedAnswers(db) = Put(<<>>, "DP-01", "Yes")
    /\ SkipList(CountedAnswers(db)) = {}
    /\ Counts(db) = <<2, 1>>

\* C20: for every answer dict and catalog list, 0 <= answered <= applicable,
\* the percentage derived from the counts lies in 0..100, and with no
\* applicable question it is 0 (no division is made).
C20_CountsAndPercentage ==
    turn.op \in {"count", "add_answer"} =>
       /\ 0 <= Counts(db)[2] /\ Counts(db)[2] <= Counts(db)[1]
       /\ db.completion_percentage = Percentage(Counts(db)[2], Counts(db)[1])
       /\ 0 <= db.completion_percentage /\ db.completion_percentage <= 1000
       /\ Counts(db)[1] = 0 => db.completion_percentage = 0

\* the percentage has been computed for an area without applicable
\* questions: the counts are (0, 0) and the percentage is 0
C20_Witness ==
    /\ turn.op = "count"
    /\ CountedArea(db) = "data_security"
    /\ Counts(db) = <<0, 0>>
    /\ db.completion_percentage = 0

\* ------------------------------------------------------------------------
\* Claims about the question filter (checked under SpecShow)
\* ------------------------------------------------------------------------

\* the answers, the question and the outcome of the filter's application
ShownAnswers == GetAnswers(db.answers_by_risk_area, db.current_risk_area)

ShownQuestion == turn.message

IsShown == db.current_question_id = ShownQuestion

\* the questions of the area that name q in their show_questions list
NamedBy(q) == {p \in SeqToSet(QuestionsOf(db.current_risk_area)) : q \in QShowQuestions(p)}

\* one legacy condition <<question_id, operator, value>> holds of the answers
ConditionHolds(c, answers) ==
    /\ c[1] \in DOMAIN answers
    /\ c[2] = "equals" => answers[c[1]] = c[3]
    /\ c[2] = "not_equals" => answers[c[1]] # c[3]

OptionAnswersOf(d) == GetAnswers(d.answers_by_risk_area, OptionArea)

\* an input item equals a label or a value of the options of S-01, case and
\* surrounding blanks apart
MatchesOption(item) ==
    \E i \in 1..Len(QOptions("S-01")) :
       Strip(Lower(item)) \in {Lower(QOptions("S-01")[i][1]), Lower(QOptions("S-01")[i][2])}

\* the value of the option an input item equals
OptionValueOf(item) ==
    QOptions("S-01")[CHOOSE i \in 1..Len(QOptions("S-01")) :
       Strip(Lower(item)) \in {Lower(QOptions("S-01")[i][1]), Lower(QOptions("S-01")[i][2])}][2]

\* the items of an answer: of the list, or of the string between its commas
InputItems(answer) ==
    IF answer \in ListAnswers THEN ListItems(answer) ELSE SplitComma(answer)

\* C23: the value stored for a multiselect question is the list of the
\* option values of exactly those input items (of a list, or of a
\* comma-separated string) that equal an option's label or value without
\* regard to case, in input order; the other items are dropped and the call
\* succeeds. "Yes, maybe" against the options (Yes/Y, No/N) of a question
\* that is not required stores ["Y"].
C23_MultiselectStored ==
    [][\A answer \in OptionAnswers :
          (db.current_question_id = "S-01" /\ AnswerFlow(answer)) =>
             LET kept == SelectSeq(InputItems(answer), MatchesOption)
             IN /\ turn'.qf.success /\ turn'.qf.saved
                /\ OptionAnswersOf(db')["S-01"] = [i \in 1..Len(kept) |-> OptionValueOf(kept[i])]
                /\ answer = "Yes, maybe" => OptionAnswersOf(db')["S-01"] = <<"Y">>]_vars

\* the call that answered the open multiselect question S-01 with
\* "no,YES" has stored the two option values in input order
C23_Witness ==
    /\ turn.op = "question_flow" /\ turn.message = "no,YES" /\ turn.qf.saved
    /\ DOMAIN OptionAnswersOf(db) = {"S-01"}
    /\ OptionAnswersOf(db)["S-01"] = <<"N", "Y">>

\* C24: an answer to a single-select question that equals no option label
\* or value is a validation failure: the call reports the reason, stores no
\* answer, and the question stays open.
C24_UnmatchedSelectFails ==
    [][\A answer \in OptionAnswers :
          (/\ db.current_question_id = "S-02"
           /\ MatchOption(QOptions("S-02"), Strip(Lower(answer))) = None
           /\ AnswerFlow(answer))
          => /\ ~turn'.qf.success /\ turn'.qf.error # None
             /\ db'.answers_by_risk_area = db.answers_by_risk_area
             /\ db'.current_question_id = "S-02"]_vars

\* C28: a call with an answer fails and stores nothing when no question is
\* open, or when the open question is required and the answer is empty or
\* blank: answers_by_risk_area, completion_percentage and
\* current_question_id are after the call what they were before.
C28_EmptyAnswerStoresNothing ==
    [][(/\ turn'.op = "question_flow" /\ turn'.qf.answered
        /\ \/ db.current_question_id = None
           \/ QRequired(db.current_question_id) /\ Strip(turn'.message) = "")
          => /\ ~turn'.qf.success /\ turn'.qf.error # None
             /\ db'.answers_by_risk_area = db.answers_by_risk_area
             /\ db'.completion_percentage = db.completion_percentage
             /\ db'.current_question_id = db.current_question_id]_vars

\* ------------------------------------------------------------------------
\* Claims about the catalog loader (checked under SpecLoad)
\* ------------------------------------------------------------------------

\* the document with the same content in the other shape
OtherShape(doc) == [doc EXCEPT !.shape = IF @ = "dict" THEN "list" ELSE "dict"]

\* C25: the loader takes a document whose risk areas are a dict keyed by id
\* and one whose risk areas are a list of records, and builds from both the
\* same flat list of question records, each tagged with its risk area.
C25_ShapesLoadAlike ==
    (turn.op \in {"load", "cached"} /\ turn.message.readable) =>
       /\ tree.questions = GetDecisionTree(OtherShape(turn.message)).questions
       /\ \A i \in 1..Len(turn.message.risk_areas) :
          \A k \in 1..Len(turn.message.risk_areas[i].questions) :
             \E n \in 1..Len(tree.questions) :
                /\ tree.questions[n].id = turn.message.risk_areas[i].questions[k].id
                /\ tree.questions[n].risk_area = turn.message.risk_areas[i].id

\* ------------------------------------------------------------------------
\* Claims about the submitted assessment (checked under SpecSubmit)
\* ------------------------------------------------------------------------

\* C26: finalizing locks the answers: once the state of the assessment is
\* "submitted", no question_flow call changes answers_by_risk_area.
C26_SubmittedLocksAnswers ==
    [][(db.current_state = "submitted" /\ turn'.op = "question_flow")
          => db'.answers_by_risk_area = db.answers_by_risk_area]_vars

\* the first active risk area of a record, or None
FirstActive(d) == IF d.active_risk_areas # <<>> THEN d.active_risk_areas[1] ELSE None

\* what a call that resolved its risk area to target leaves: with no target
\* an error and the record as it was, else the target as current_risk_area
ResolvedTo(target) ==
    IF target = None
    THEN ~turn'.qf.success /\ turn'.qf.error = "No risk area specified" /\ db' = db
    ELSE db'.current_risk_area = target

\* C27: question_flow works on the hint if the hint is an active risk area;
\* otherwise on the stored current_risk_area; otherwise on the first active
\* risk area; with no active risk area it returns the 'no risk area' result
\* and writes nothing.
C27_HintThenStoredThenFirst ==
    [][turn'.op = "question_flow" =>
          ResolvedTo(IF turn'.message \in SeqToSet(db.active_risk_areas) THEN turn'.message
                     ELSE IF db.current_risk_area # None THEN db.current_risk_area
                     ELSE FirstActive(db))]_vars

\* C27, amended: question_flow works on the hint if the hint is an active
\* risk area; with no hint, on the stored current_risk_area if that is an
\* active risk area; in every other case on the first active risk area;
\* with no active risk area it returns the 'no risk area' result and writes
\* nothing.
C27_HintOrStoredWithoutHintOrFirst ==
    [][turn'.op = "question_flow" =>
          ResolvedTo(IF turn'.message \in SeqToSet(db.active_risk_areas) THEN turn'.message
                     ELSE IF turn'.message = None
                             /\ db.current_risk_area \in SeqToSet(db.active_risk_areas)
                          THEN db.current_risk_area
                     ELSE FirstActive(db))]_vars

\* a call with a hint that is no active risk area has left data_privacy,
\* whose question DP-01 is still the open one, for the first active risk
\* area third_party
C27_Witness ==
    /\ turn.op = "question_flow" /\ turn.message = "data_security"
    /\ db.active_risk_areas = RiskAreaIds
    /\ db.current_question_id = "DP-01"
    /\ db.current_risk_area = "third_party"

\* ------------------------------------------------------------------------
\* Claims about the completion of a risk area (checked under SpecLegacy)
\* ------------------------------------------------------------------------

\* _count_applicable_questions on the stored answers of a risk area returns
\* as many answered as applicable questions
CountsComplete(d, area) ==
    \E c \in {CountApplicableQuestions(area, GetAnswers(d.answers_by_risk_area, area))} :
       c[2] = c[1]

\* C36: a successful question_flow call returns completed = true for the
\* risk area it worked on exactly when _count_applicable_questions on the
\* stored answers of that area returns answered = applicable.
C36_CompletedIffCountsEqual ==
    (turn.op = "question_flow" /\ turn.qf.success) =>
       (turn.qf.completed <=> CountsComplete(db, db.current_risk_area))

\* the flow has reported the legacy area completed with L-04 unanswered
\* and not applicable
C36_Witness ==
    /\ turn.op = "question_flow" /\ turn.qf.success /\ turn.qf.completed
    /\ db.current_risk_area = LegacyArea
    /\ "L-04" \notin DOMAIN GetAnswers(db.answers_by_risk_area, LegacyArea)
    /\ "L-03" \in DOMAIN GetAnswers(db.answers_by_risk_area, LegacyArea)

\* the scan of STEP 3 finds no question to show in the risk area on the
\* stored answers
ScanComplete(d, area) ==
    \E answers \in {GetAnswers(d.answers_by_risk_area, area)} :
       FirstToShow(QuestionsOf(area), answers, SkipList(answers), QuestionsOf(area)) = None

\* the applicable questions of all active risk areas on the stored answers
TotalApplicable(d) ==
    SumCounts(d.active_risk_areas,
              [a \in SeqToSet(d.active_risk_areas) |-> GetAnswers(d.answers_by_risk_area, a)], 1)

\* C37 (checked under SpecSubmit): once question_flow has returned
\* completed and no active risk area has a question left to show, the
\* assessment having at least one applicable question, the persisted
\* completion_percentage is 100.
C37_AllCompletedIsHundred ==
    (/\ turn.op = "question_flow" /\ turn.qf.success /\ turn.qf.completed
     /\ \A i \in 1..Len(db.active_risk_areas) : ScanComplete(db, db.active_risk_areas[i])
     /\ TotalApplicable(db) >= 1)
       => db.completion_percentage = 1000

\* ------------------------------------------------------------------------
\* Claims about the removal of risk areas (checked under SpecRemove)
\* ------------------------------------------------------------------------

\* C38: in every stored state reached by add_risk_area, remove_risk_area
\* and question_flow, current_risk_area, when set, is one of
\* active_risk_areas, so that an open current_question_id never belongs to
\* a risk area that was removed.
C38_CurrentAreaIsActive ==
    db.current_risk_area # None => db.current_risk_area \in SeqToSet(db.active_risk_areas)

\* the ids answered in a risk area of a stored record
AnsweredIn(d, area) == DOMAIN GetAnswers(d.answers_by_risk_area, area)

\* C40 (checked under SpecRemove): the question flow of a risk area
\* terminates. Every answer question_flow accepts is stored under the
\* open question id, which is a question of the area not yet in the area's
\* answers; nothing else of the area's answers changes, and the call then
\* reports the area completed or opens a question of the area that is
\* still unanswered: completed = true comes after at most as many accepted
\* answers as the area has questions.
C40_AcceptedAnswerIsNew ==
    [][(turn'.op = "question_flow" /\ turn'.qf.saved) =>
          LET area == db'.current_risk_area
              questions == SeqToSet(QuestionsOf(area))
          IN /\ db.current_question_id \in questions \ AnsweredIn(db, area)
             /\ AnsweredIn(db', area) = AnsweredIn(db, area) \cup {db.current_question_id}
             /\ Cardinality(AnsweredIn(db', area)) <= Cardinality(questions)
             /\ turn'.qf.success =>
                   \/ turn'.qf.completed
                   \/ db'.current_question_id \in questions \ AnsweredIn(db', area)]_vars

\* the third accepted answer of third_party, an area of three questions,
\* has completed it
C40_Witness ==
    /\ turn.op = "question_flow" /\ turn.qf.saved /\ turn.qf.completed
    /\ db.current_risk_area = "third_party"
    /\ AnsweredIn(db, "third_party") = SeqToSet(QuestionsOf("third_party"))

\* ------------------------------------------------------------------------
\* Claims about the auto-analysis of an upload (checked under SpecUpload)
\* ------------------------------------------------------------------------

\* C35: the auto-analysis of an upload adds the suggested risk areas in
\* one atomic update: when it has run concurrently with an add_risk_area
\* or a remove_risk_area of another session, no area either of them added
\* is lost and no removal is undone (an area one call adds and the other
\* removes may end either way).
C35_NoLostUpdate ==
    (par.calls[1].pc = "done" /\ par.calls[2].pc = "done") =>
       LET suggested == SeqToSet(Suggested(par.calls[1].call.arg))
           writer == par.calls[2].call
           active == SeqToSet(db.active_risk_areas)
       IN /\ writer.kind = "add_risk_area" => suggested \cup {writer.arg} \subseteq active
          /\ writer.kind = "remove_risk_area" =>
                /\ suggested \ {writer.arg} \subseteq active
                /\ writer.arg \notin suggested => writer.arg \notin active

\* ------------------------------------------------------------------------
\* Claims about turns of two sessions in parallel (checked under SpecPar)
\* ------------------------------------------------------------------------

\* the stored records that running the two calls one after the other, in
\* either order, leaves
SerialOutcomes ==
    {SerialCall(SerialCall(par.base, par.calls[1].call), par.calls[2].call),
     SerialCall(SerialCall(par.base, par.calls[2].call), par.calls[1].call)}

\* C14: when the tool calls of two sessions' turns on the same assessment
\* have both returned, whatever the interleaving of their store operations,
\* the persisted assessment is the one that running the two calls in some
\* serial order leaves: no saved answer and no attached risk area is lost.
C14_Serializable ==
    (\A s \in Sessions : par.calls[s].pc = "done") => db \in SerialOutcomes

====
